---------------------------- MODULE Spec2Model ----------------------------
(***************************************************************************)
(* A model of the Instagram export parser (class InstagramDataParser) and   *)
(* of its caller TrainModel.  Strings are sequences of one-character        *)
(* strings, so that includes / indexOf / split / trim behave as they do on  *)
(* JavaScript strings.  A JSON value is a record with a tag; a file of the  *)
(* archive carries the value JSON.parse yields on its bytes, or the tag     *)
(* "invalid" when JSON.parse throws.                                        *)
(***************************************************************************)
EXTENDS Integers, Sequences, FiniteSets, TLC

VARIABLES
    tables,          \* the table objects ever allocated for extractedFiles, by identity
    extractedFiles,  \* this.extractedFiles: the identity of the parser's current table
    calls,           \* the parseInstagramData invocations, each with its position
    liveUrls,        \* the object URLs minted by URL.createObjectURL and not revoked
    urlCount,        \* number of object URLs minted so far
    now,             \* Date.now()
    cleanups,        \* number of cleanup() calls made so far
    fnPc,            \* position of the single-function harness
    fnArg,           \* its input (an index into the enumerated inputs)
    fnRet            \* its result

vars == <<tables, extractedFiles, calls, liveUrls, urlCount, now, cleanups, fnPc, fnArg, fnRet>>

parserVars == <<tables, extractedFiles, calls, liveUrls, urlCount, now, cleanups>>

fnVars == <<fnPc, fnArg, fnRet>>

(***************************************************************************)
(* JavaScript strings                                                       *)
(***************************************************************************)

\* s1 + s2 + ... for a sequence of strings
RECURSIVE Cat(_)
Cat(ss) == IF ss = <<>> THEN <<>> ELSE Head(ss) \o Cat(Tail(ss))

\* String.prototype.startsWith
startsWith(s, p) == Len(p) <= Len(s) /\ SubSeq(s, 1, Len(p)) = p

\* String.prototype.endsWith
endsWith(s, p) == Len(p) <= Len(s) /\ SubSeq(s, Len(s) - Len(p) + 1, Len(s)) = p

\* the 0-based positions at which sub occurs in s
occurrences(s, sub) ==
    {i \in 0..(Len(s) - Len(sub)) : SubSeq(s, i + 1, i + Len(sub)) = sub}

\* String.prototype.includes
includes(s, sub) == occurrences(s, sub) # {}

\* String.prototype.indexOf: the first position, -1 when there is none
indexOf(s, sub) ==
    IF occurrences(s, sub) = {} THEN -1
    ELSE CHOOSE i \in occurrences(s, sub) : \A j \in occurrences(s, sub) : i <= j

\* String.prototype.lastIndexOf: the last position, -1 when there is none
lastIndexOf(s, sub) ==
    IF occurrences(s, sub) = {} THEN -1
    ELSE CHOOSE i \in occurrences(s, sub) : \A j \in occurrences(s, sub) : j <= i

\* String.prototype.substring(start, end): arguments are clamped to 0..length
\* and swapped when start > end
substring(s, start, end) ==
    LET clamp(x) == IF x < 0 THEN 0 ELSE IF x > Len(s) THEN Len(s) ELSE x
        a == clamp(start)
        b == clamp(end)
        lo == IF a <= b THEN a ELSE b
        hi == IF a <= b THEN b ELSE a
    IN  SubSeq(s, lo + 1, hi)

\* String.prototype.substring(start)
substringFrom(s, start) == substring(s, start, Len(s))

\* String.prototype.split(sep) for a one-character separator: '' splits to ['']
RECURSIVE split(_, _)
split(s, sep) ==
    LET i == indexOf(s, <<sep>>)
    IN  IF i = -1 THEN <<s>>
        ELSE <<SubSeq(s, 1, i)>> \o split(SubSeq(s, i + 2, Len(s)), sep)

\* Array.prototype.pop() || '' on the result of split
popOrEmpty(parts) == IF parts = <<>> THEN <<>> ELSE parts[Len(parts)]

\* the characters String.prototype.trim removes
WhiteSpace == {" "}

\* String.prototype.trim
RECURSIVE trimStart(_)
trimStart(s) ==
    IF s # <<>> /\ Head(s) \in WhiteSpace THEN trimStart(Tail(s)) ELSE s

RECURSIVE trimEnd(_)
trimEnd(s) ==
    IF s # <<>> /\ s[Len(s)] \in WhiteSpace THEN trimEnd(SubSeq(s, 1, Len(s) - 1)) ELSE s

trim(s) == trimEnd(trimStart(s))

\* String.prototype.toLowerCase on the upper-case letters the inputs use
lowerChar(c) ==
    CASE c = "J" -> "j" [] c = "P" -> "p" [] c = "G" -> "g" [] c = "N" -> "n"
      [] c = "I" -> "i" [] c = "M" -> "m" [] c = "A" -> "a" [] c = "B" -> "b"
      [] OTHER -> c

\* A code unit outside ASCII is written by its code point.  The lower case of
\* U+0130 (capital I with dot above) is the two units i, U+0307, so the result
\* can be longer than the string.
RECURSIVE toLowerCase(_)
toLowerCase(s) ==
    IF s = <<>> THEN <<>>
    ELSE (IF Head(s) = "U+0130" THEN <<"i", "U+0307">> ELSE <<lowerChar(Head(s))>>)
             \o toLowerCase(Tail(s))

\* Number.prototype.toString for an integer
Digit(d) ==
    CASE d = 0 -> "0" [] d = 1 -> "1" [] d = 2 -> "2" [] d = 3 -> "3" [] d = 4 -> "4"
      [] d = 5 -> "5" [] d = 6 -> "6" [] d = 7 -> "7" [] d = 8 -> "8" [] d = 9 -> "9"

RECURSIVE natToString(_)
natToString(n) ==
    IF n < 10 THEN <<Digit(n)>> ELSE natToString(n \div 10) \o <<Digit(n % 10)>>

numToString(n) == IF n < 0 THEN <<"-">> \o natToString(0 - n) ELSE natToString(n)

(***************************************************************************)
(* JSON values (the results of JSON.parse) and JavaScript coercions         *)
(***************************************************************************)

JValue(t, n, s, a, o) == [t |-> t, n |-> n, s |-> s, a |-> a, o |-> o]

\* the bytes are not JSON text: JSON.parse throws
JInvalid == JValue("invalid", 0, <<>>, <<>>, <<>>)

JUndefined == JValue("undefined", 0, <<>>, <<>>, <<>>)

JNull == JValue("null", 0, <<>>, <<>>, <<>>)

JBool(b) == JValue("boolean", IF b THEN 1 ELSE 0, <<>>, <<>>, <<>>)

JNum(n) == JValue("number", n, <<>>, <<>>, <<>>)

JStr(s) == JValue("string", 0, s, <<>>, <<>>)

JArr(a) == JValue("array", 0, <<>>, a, <<>>)

\* an object: its own properties as <<key, value>> pairs, keys distinct
JObj(o) == JValue("object", 0, <<>>, <<>>, o)

\* Array.isArray
isArray(v) == v.t = "array"

\* typeof v === 'object'
typeofObject(v) == v.t \in {"object", "array", "null"}

hasOwn(v, key) == v.t = "object" /\ \E i \in 1..Len(v.o) : v.o[i][1] = key

\* v[key] for one of the field names the parser probes; none of them is a
\* property of Object.prototype or Array.prototype
get(v, key) ==
    IF hasOwn(v, key)
    THEN v.o[CHOOSE i \in 1..Len(v.o) : v.o[i][1] = key][2]
    ELSE JUndefined

\* v[key] throws a TypeError
getThrows(v) == v.t \in {"null", "undefined"}

\* ToBoolean
truthy(v) ==
    CASE v.t = "number" -> v.n # 0
      [] v.t = "string" -> v.s # <<>>
      [] v.t = "boolean" -> v.n = 1
      [] v.t \in {"object", "array"} -> TRUE
      [] OTHER -> FALSE

\* v.toString() throws: an own property "toString" of a parsed object is never
\* a function, and Array.prototype.join calls toString on the elements
RECURSIVE toStringThrows(_)
toStringThrows(v) ==
    CASE v.t = "object" -> hasOwn(v, "toString")
      [] v.t = "array" -> \E i \in 1..Len(v.a) : toStringThrows(v.a[i])
      [] OTHER -> FALSE

RECURSIVE toString(_)
RECURSIVE join(_)
\* Array.prototype.join(','): null and undefined elements give ''
join(a) ==
    IF a = <<>> THEN <<>>
    ELSE LET h == IF Head(a).t \in {"null", "undefined"} THEN <<>> ELSE toString(Head(a))
         IN  IF Len(a) = 1 THEN h ELSE h \o <<",">> \o join(Tail(a))

\* v.toString() for a truthy v
toString(v) ==
    CASE v.t = "number" -> numToString(v.n)
      [] v.t = "string" -> v.s
      [] v.t = "boolean" -> IF v.n = 1 THEN <<"t", "r", "u", "e">> ELSE <<"f", "a", "l", "s", "e">>
      [] v.t = "array" -> join(v.a)
      [] OTHER -> <<"[", "o", "b", "j", "e", "c", "t", " ", "O", "b", "j", "e", "c", "t", "]">>

(***************************************************************************)
(* Timestamps: undefined, a number, or NaN                                  *)
(***************************************************************************)

TsUndefined == [k |-> "undefined", n |-> 0]

TsNumber(n) == [k |-> "number", n |-> n]

TsNaN == [k |-> "NaN", n |-> 0]

\* a test that takes 0 and NaN for timestamps too
tsDefined(ts) == ts.k # "undefined"

\* if (post.timestamp)
tsTruthy(ts) == ts.k = "number" /\ ts.n # 0

\* The date strings new Date(s) understands, with their epoch milliseconds:
\* the ISO forms of the first days of 1970.  Every other string of the inputs
\* gives an Invalid Date, whose getTime() is NaN.
KnownDates ==
    << <<<<"1", "9", "7", "0">>, 0>>,
       <<<<"1", "9", "7", "0", "-", "0", "1", "-", "0", "2">>, 86400000>> >>

\* new Date(s).getTime()
dateGetTime(s) ==
    IF \E i \in 1..Len(KnownDates) : KnownDates[i][1] = s
    THEN TsNumber(KnownDates[CHOOSE i \in 1..Len(KnownDates) : KnownDates[i][1] = s][2])
    ELSE TsNaN

(***************************************************************************)
(* extractPostInfo                                                          *)
(***************************************************************************)

captionKeys == <<"title", "caption", "description", "text", "content">>

mediaUriKeys == <<"uri", "media_uri", "file_path", "path", "url">>

timestampKeys == <<"creation_timestamp", "timestamp", "created_time", "date", "time">>

\* no default: the caption stays ''
emptyCaption == <<>>

defaultCaption == <<"I", "n", "s", "t", "a", "g", "r", "a", "m", " ", "p", "o", "s", "t">>

\* the loop without the test for a blank string
RECURSIVE firstTruthy(_, _)
firstTruthy(item, keys) ==
    IF keys = <<>> THEN [threw |-> FALSE, value |-> <<>>]
    ELSE LET v == get(item, Head(keys))
         IN  IF ~truthy(v) THEN firstTruthy(item, Tail(keys))
             ELSE IF toStringThrows(v) THEN [threw |-> TRUE, value |-> <<>>]
             ELSE [threw |-> FALSE, value |-> toString(v)]

\* for (const key of keys) { if (item[key] && item[key].toString().trim()) {
\*   x = item[key].toString().trim(); break; } }   starting from x = ''
RECURSIVE firstNonBlank(_, _)
firstNonBlank(item, keys) ==
    IF keys = <<>> THEN [threw |-> FALSE, value |-> <<>>]
    ELSE LET v == get(item, Head(keys))
         IN  IF ~truthy(v) THEN firstNonBlank(item, Tail(keys))
             ELSE IF toStringThrows(v) THEN [threw |-> TRUE, value |-> <<>>]
             ELSE IF trim(toString(v)) # <<>> THEN [threw |-> FALSE, value |-> trim(toString(v))]
             ELSE firstNonBlank(item, Tail(keys))

\* for (const key of keys) { if (item[key]) { ...; break; } }
RECURSIVE firstTimestamp(_, _)
firstTimestamp(item, keys) ==
    IF keys = <<>> THEN TsUndefined
    ELSE LET timeValue == get(item, Head(keys))
         IN  IF ~truthy(timeValue) THEN firstTimestamp(item, Tail(keys))
             ELSE IF timeValue.t = "number" THEN TsNumber(timeValue.n)
             ELSE IF timeValue.t = "string" THEN dateGetTime(timeValue.s)
             ELSE TsUndefined

\* extractPostInfo(item) for an item with typeof item === 'object', not null:
\* info is <<>> for null and <<postInfo>> otherwise; threw when a toString
\* call raises a TypeError
extractPostInfo(item) ==
    LET cap == firstNonBlank(item, captionKeys)
        caption == IF cap.value = <<>> THEN defaultCaption ELSE cap.value
        uri == firstNonBlank(item, mediaUriKeys)
    IN  IF cap.threw \/ uri.threw THEN [threw |-> TRUE, info |-> <<>>]
        ELSE IF uri.value = <<>> THEN [threw |-> FALSE, info |-> <<>>]
        ELSE [threw |-> FALSE,
              info |-> <<[caption |-> caption,
                          mediaUri |-> uri.value,
                          timestamp |-> firstTimestamp(item, timestampKeys),
                          originalData |-> item]>>]

(***************************************************************************)
(* parseMetadata                                                            *)
(***************************************************************************)

itemsKeys == <<"media", "posts", "data", "items">>

\* for (const key of ['media','posts','data','items'])
\*   if (data[key] && Array.isArray(data[key])) { items = data[key]; break; }
RECURSIVE firstArray(_, _)
firstArray(data, keys) ==
    IF keys = <<>> THEN <<>>
    ELSE IF truthy(get(data, Head(keys))) /\ isArray(get(data, Head(keys)))
         THEN get(data, Head(keys)).a
         ELSE firstArray(data, Tail(keys))

\* the search without the whole value as a single item
itemsOrNone(data) ==
    IF isArray(data) THEN data.a
    ELSE IF typeofObject(data) THEN firstArray(data, itemsKeys)
    ELSE <<>>

\* the items of one parsed file
itemsOf(data) ==
    IF isArray(data) THEN data.a
    ELSE IF typeofObject(data)
         THEN IF firstArray(data, itemsKeys) = <<>> THEN <<data>> ELSE firstArray(data, itemsKeys)
         ELSE <<>>

\* the loop over the items of one file: the PostInfos pushed before the loop
\* ended or an exception left it
RECURSIVE processItems(_)
processItems(items) ==
    IF items = <<>> THEN <<>>
    ELSE IF Head(items).t \in {"object", "array"}
         THEN LET r == extractPostInfo(Head(items))
              IN  IF r.threw THEN <<>> ELSE r.info \o processItems(Tail(items))
         ELSE processItems(Tail(items))

\* the try block throws before it reaches the items: JSON.parse throws on
\* bytes that are not JSON, and data[key] throws on null
discoveryThrows(content) ==
    \/ content.json.t = "invalid"
    \/ ~isArray(content.json) /\ typeofObject(content.json) /\ getThrows(content.json)

\* the PostInfos one metadata file adds to postsData; a file whose bytes are
\* not JSON, or whose value is null, throws inside the try and adds nothing
postsOfFile(content) ==
    IF discoveryThrows(content) THEN <<>>
    ELSE processItems(itemsOf(content.json))

\* the loop with a catch that leaves it instead of going on to the next file
RECURSIVE parseMetadataUntilError(_)
parseMetadataUntilError(metadataFiles) ==
    IF metadataFiles = <<>> THEN <<>>
    ELSE IF discoveryThrows(Head(metadataFiles)) THEN <<>>
    ELSE postsOfFile(Head(metadataFiles)) \o parseMetadataUntilError(Tail(metadataFiles))

\* catch (error) { console.warn(...); continue; }: the next file is processed
\* whatever happened in this one

RECURSIVE parseMetadata(_)
parseMetadata(metadataFiles) ==
    IF metadataFiles = <<>> THEN <<>>
    ELSE postsOfFile(Head(metadataFiles)) \o parseMetadata(Tail(metadataFiles))

(***************************************************************************)
(* The file table: an object from path to ArrayBuffer.  Its keys are kept   *)
(* in insertion order (no path of the inputs is an integer index), and an   *)
(* assignment to an existing key keeps the key's place.                     *)
(***************************************************************************)

\* Object.keys(table)
keysOf(table) == [i \in 1..Len(table) |-> table[i].path]

hasKey(table, path) == \E i \in 1..Len(table) : table[i].path = path

\* an assignment that adds the key again when the table has it already
storeAppend(table, path, content) == Append(table, [path |-> path, content |-> content])

\* table[path] = content
store(table, path, content) ==
    IF hasKey(table, path)
    THEN [i \in 1..Len(table) |->
            IF table[i].path = path THEN [path |-> path, content |-> content] ELSE table[i]]
    ELSE Append(table, [path |-> path, content |-> content])

\* the elements of a sequence that pass a test, in order; passes[i] is the
\* outcome of the test on seq[i]
filterSeq(seq, passes) ==
    LET F[i \in 0..Len(seq)] ==
            IF i = 0 THEN <<>>
            ELSE IF passes[i] THEN Append(F[i - 1], seq[i]) ELSE F[i - 1]
    IN  F[Len(seq)]

(***************************************************************************)
(* findDirectories                                                          *)
(***************************************************************************)

\* the first element of a sequence that passes a test, as <<x>>, or <<>>;
\* passes[i] is the outcome of the test on seq[i]
firstWhere(seq, passes) ==
    IF \E i \in 1..Len(seq) : passes[i]
    THEN <<seq[CHOOSE i \in 1..Len(seq) : passes[i] /\ \A j \in 1..(i - 1) : ~passes[j]]>>
    ELSE <<>>

\* the value of mediaDir after the first loop
findMediaDir(paths) ==
    LET isMedia(path) == includes(path, <<"m", "e", "d", "i", "a">>) /\ includes(path, <<"p", "o", "s", "t", "s">>)
        hit == firstWhere(paths, [i \in 1..Len(paths) |-> isMedia(paths[i])])
    IN  IF hit = <<>> THEN <<>> ELSE substring(hit[1], 0, indexOf(hit[1], <<"p", "o", "s", "t", "s">>))

\* the value of activityDir after the second loop
findActivityDir(paths) ==
    LET isActivity(path) == includes(path, <<"y", "o", "u", "r", "_", "i", "n", "s", "t", "a", "g", "r", "a", "m", "_", "a", "c", "t", "i", "v", "i", "t", "y">>)
        hit == firstWhere(paths, [i \in 1..Len(paths) |-> isActivity(paths[i])])
    IN  IF hit = <<>> THEN <<>>
        ELSE substring(hit[1], 0, indexOf(hit[1], <<"y", "o", "u", "r", "_", "i", "n", "s", "t", "a", "g", "r", "a", "m", "_", "a", "c", "t", "i", "v", "i", "t", "y">>))
                 \o <<"y", "o", "u", "r", "_", "i", "n", "s", "t", "a", "g", "r", "a", "m", "_", "a", "c", "t", "i", "v", "i", "t", "y">>

\* findDirectories(): threw when it throws 'Could not find required directories'
findDirectories(table) ==
    LET paths == keysOf(table)
        mediaDir == findMediaDir(paths)
        activityDir == findActivityDir(paths)
    IN  [threw |-> (mediaDir = <<>> \/ activityDir = <<>>),
         mediaDir |-> mediaDir,
         activityDir |-> activityDir]

(***************************************************************************)
(* findMetadataFiles                                                        *)
(***************************************************************************)

priorityFiles ==
    <<<<"p", "o", "s", "t", "s", "_", "1", ".", "j", "s", "o", "n">>, <<"p", "o", "s", "t", "s", ".", "j", "s", "o", "n">>, <<"m", "e", "d", "i", "a", ".", "j", "s", "o", "n">>, <<"s", "a", "v", "e", "d", "_", "p", "o", "s", "t", "s", ".", "j", "s", "o", "n">>>>

\* Array.prototype.indexOf on priorityFiles: 0-based, -1 when absent
priorityOf(name) ==
    IF \E i \in 1..Len(priorityFiles) : priorityFiles[i] = name
    THEN (CHOOSE i \in 1..Len(priorityFiles) : priorityFiles[i] = name) - 1
    ELSE -1

\* Object.keys(table).find(path => table[path] === a) || '' : the first key
\* whose buffer is the very object a
pathOfBuffer(table, a) ==
    LET same(e) == e.content.buf = a.buf
        hit == firstWhere(table, [i \in 1..Len(table) |-> same(table[i])])
    IN  IF hit = <<>> THEN <<>> ELSE hit[1].path

\* a comparator that takes every file for an unlisted one
rankNone(table, a) == -1

\* the priority the comparator gives a buffer
rankOf(table, a) == priorityOf(popOrEmpty(split(pathOfBuffer(table, a), "/")))

\* Array.prototype.sort with the comparator of findMetadataFiles.  The sort
\* is stable and the comparator orders by rank with -1 last, so the result is
\* the files of rank 0, then 1, 2, 3, then -1, each group in its old order.
sortByPriority(table, files) ==
    LET group(r) == LET hasRank(a) == rankOf(table, a) = r IN filterSeq(files, [i \in 1..Len(files) |-> hasRank(files[i])])
    IN  group(0) \o group(1) \o group(2) \o group(3) \o group(-1)

findMetadataFiles(table, activityDir) ==
    LET isMeta(e) == startsWith(e.path, activityDir) /\ endsWith(e.path, <<".", "j", "s", "o", "n">>)
        found == filterSeq(table, [i \in 1..Len(table) |-> isMeta(table[i])])
    IN  sortByPriority(table, [i \in 1..Len(found) |-> found[i].content])

(***************************************************************************)
(* findImageFiles                                                           *)
(***************************************************************************)

imageExtensions == {<<".", "j", "p", "g">>, <<".", "j", "p", "e", "g">>, <<".", "p", "n", "g">>, <<".", "b", "m", "p">>, <<".", "w", "e", "b", "p">>}

findImageFiles(table, mediaDir) ==
    LET isImage(filePath) ==
            /\ startsWith(filePath, mediaDir)
            /\ substringFrom(toLowerCase(filePath), lastIndexOf(filePath, <<".">>))
                   \in imageExtensions
        paths == keysOf(table)
    IN  filterSeq(paths, [i \in 1..Len(paths) |-> isImage(paths[i])])

(***************************************************************************)
(* matchPostsWithImages                                                     *)
(***************************************************************************)

\* imgPath.split('/').pop() || ''
filenameOf(imgPath) == popOrEmpty(split(imgPath, "/"))

\* an assignment that leaves an existing key alone
setImageOnce(imageMap, filename, imgPath) ==
    IF \E i \in 1..Len(imageMap) : imageMap[i][1] = filename
    THEN imageMap
    ELSE Append(imageMap, <<filename, imgPath>>)

\* imageMap[filename] = imgPath on an object kept as <<filename, path>> pairs
\* in insertion order
setImage(imageMap, filename, imgPath) ==
    IF \E i \in 1..Len(imageMap) : imageMap[i][1] = filename
    THEN [i \in 1..Len(imageMap) |->
            IF imageMap[i][1] = filename THEN <<filename, imgPath>> ELSE imageMap[i]]
    ELSE Append(imageMap, <<filename, imgPath>>)

\* for (const imgPath of imageFiles) imageMap[filename] = imgPath
RECURSIVE buildImageMap(_, _)
buildImageMap(imageMap, imageFiles) ==
    IF imageFiles = <<>> THEN imageMap
    ELSE buildImageMap(setImage(imageMap, filenameOf(Head(imageFiles)), Head(imageFiles)),
                       Tail(imageFiles))

\* names imageMap inherits from Object.prototype: imageMap[name] is a truthy
\* function or object although imageMap has no such own key
ObjectPrototypeKeys ==
    {<<"c", "o", "n", "s", "t", "r", "u", "c", "t", "o", "r">>, <<"t", "o", "S", "t", "r", "i", "n", "g">>, <<"v", "a", "l", "u", "e", "O", "f">>, <<"h", "a", "s", "O", "w", "n", "P", "r", "o", "p", "e", "r", "t", "y">>, <<"i", "s", "P", "r", "o", "t", "o", "t", "y", "p", "e", "O", "f">>,
     <<"p", "r", "o", "p", "e", "r", "t", "y", "I", "s", "E", "n", "u", "m", "e", "r", "a", "b", "l", "e">>, <<"t", "o", "L", "o", "c", "a", "l", "e", "S", "t", "r", "i", "n", "g">>, <<"_", "_", "p", "r", "o", "t", "o", "_", "_">>}

\* what imageMap[name] yields for an inherited name; no path equals it
InheritedValue == <<"Object.prototype member">>

NoImage == [found |-> FALSE, imagePath |-> <<>>]

Image(path) == [found |-> TRUE, imagePath |-> path]

\* if (imageMap[filename]) return imageMap[filename];
exactMatch(filename, imageMap) ==
    IF \E i \in 1..Len(imageMap) : imageMap[i][1] = filename
    THEN Image(imageMap[CHOOSE i \in 1..Len(imageMap) : imageMap[i][1] = filename][2])
    ELSE IF filename \in ObjectPrototypeKeys THEN Image(InheritedValue)
    ELSE NoImage

\* for (const [imgFilename, imgPath] of Object.entries(imageMap))
\*   if (uriParts.some(part => part && imgFilename.includes(part))) return imgPath;
partialMatch(uriParts, imageMap) ==
    LET hits(e) == \E k \in 1..Len(uriParts) :
                       uriParts[k] # <<>> /\ includes(e[1], uriParts[k])
        hit == firstWhere(imageMap, [i \in 1..Len(imageMap) |-> hits(imageMap[i])])
    IN  IF hit = <<>> THEN NoImage ELSE Image(hit[1][2])

partialFirst(uri, imageMap) ==
    LET uriParts == split(uri, "/")
    IN  IF partialMatch(uriParts, imageMap).found THEN partialMatch(uriParts, imageMap)
        ELSE exactMatch(uriParts[Len(uriParts)], imageMap)

findImageByUri(uri, imageMap) ==
    LET uriParts == split(uri, "/")
    IN  IF exactMatch(uriParts[Len(uriParts)], imageMap).found
        THEN exactMatch(uriParts[Len(uriParts)], imageMap)
        ELSE partialMatch(uriParts, imageMap)

findImageByTimestamp(timestamp, imageFiles) ==
    IF Len(imageFiles) > 0 THEN Image(imageFiles[1]) ELSE NoImage

MatchedPost(imagePath, post) ==
    [imagePath |-> imagePath,
     caption |-> post.caption,
     timestamp |-> post.timestamp,
     originalData |-> post.originalData]

\* the first loop of matchPostsWithImages
RECURSIVE matchLoop(_, _, _)
matchLoop(postsData, imageMap, imageFiles) ==
    IF postsData = <<>> THEN <<>>
    ELSE LET post == Head(postsData)
             byUri == IF post.mediaUri # <<>> THEN findImageByUri(post.mediaUri, imageMap)
                      ELSE NoImage
             byTime == IF tsTruthy(post.timestamp)
                       THEN findImageByTimestamp(post.timestamp, imageFiles)
                       ELSE NoImage
             rest == matchLoop(Tail(postsData), imageMap, imageFiles)
         IN  IF byUri.found THEN <<MatchedPost(byUri.imagePath, post)>> \o rest
             ELSE IF byTime.found THEN <<MatchedPost(byTime.imagePath, post)>> \o rest
             ELSE rest

\* the limit on synthetic posts
FallbackCap == 20

DayMs == 86400000

Min(a, b) == IF a <= b THEN a ELSE b

captionPrefix == <<"I", "n", "s", "t", "a", "g", "r", "a", "m", " ", "p", "o", "s", "t", " ">>

\* the loop without its limit
syntheticPostsUncapped(imageFiles, clock) ==
    [k \in 1..Len(imageFiles) |->
        [imagePath |-> imageFiles[k],
         caption |-> captionPrefix \o numToString(k),
         timestamp |-> TsNumber(clock - ((k - 1) * DayMs)),
         originalData |-> JObj(<<>>)]]

\* the posts made for the images when nothing matched; clock is Date.now(),
\* which the loop reads at every turn and which does not visibly advance
\* during it
syntheticPosts(imageFiles, clock) ==
    [k \in 1..Min(Len(imageFiles), FallbackCap) |->
        [imagePath |-> imageFiles[k],
         caption |-> captionPrefix \o numToString(k),
         timestamp |-> TsNumber(clock - ((k - 1) * DayMs)),
         originalData |-> JObj(<<>>)]]

\* the fallback run whatever the loop paired
matchThenFill(postsData, imageFiles, clock) ==
    matchLoop(postsData, buildImageMap(<<>>, imageFiles), imageFiles)
        \o syntheticPosts(imageFiles, clock)

matchPostsWithImages(postsData, imageFiles, clock) ==
    LET imageMap == buildImageMap(<<>>, imageFiles)
        matchedPosts == matchLoop(postsData, imageMap, imageFiles)
    IN  IF Len(matchedPosts) = 0 /\ Len(imageFiles) > 0
        THEN syntheticPosts(imageFiles, clock)
        ELSE matchedPosts

(***************************************************************************)
(* Archives: the ZIP files a user may pick.  An entry is a directory or a   *)
(* file; a file carries what JSON.parse makes of its bytes.                 *)
(***************************************************************************)

FileEntry(name, json) == [name |-> name, dir |-> FALSE, readable |-> TRUE, json |-> json]

\* a file entry whose data is damaged: file.async rejects
DamagedEntry(name) == [name |-> name, dir |-> FALSE, readable |-> FALSE, json |-> JInvalid]

DirEntry(name) == [name |-> name, dir |-> TRUE, readable |-> TRUE, json |-> JInvalid]

\* the README's "Array Structure": the media reference is nested under media
ArrayStructure ==
    JArr(<<JObj(<< <<"title", JStr(<<"A">>)>>,
                   <<"media", JArr(<<JObj(<< <<"uri", JStr(<<"m", "e", "d", "i", "a", "/", "p", "o", "s", "t", "s", "/", "p", "1", "/", "a", ".", "j", "p", "g">>)>>,
                                             <<"creation_timestamp", JNum(1000)>> >>)>>)>> >>)>>)

\* the README's "Object with Nested Media"
NestedMedia ==
    JObj(<< <<"media", JArr(<<JObj(<< <<"title", JStr(<<"B">>)>>,
                                      <<"uri", JStr(<<"m", "e", "d", "i", "a", "/", "p", "o", "s", "t", "s", "/", "p", "2", "/", "b", ".", "j", "p", "g">>)>>,
                                      <<"created_time", JNum(5)>> >>)>>)>> >>)

Archives ==
    << \* 1: the documented layout with the Array Structure
       [read |-> TRUE, valid |-> TRUE,
        entries |-> <<FileEntry(<<"m", "e", "d", "i", "a", "/", "p", "o", "s", "t", "s", "/", "p", "1", "/", "a", ".", "j", "p", "g">>, JInvalid),
                      FileEntry(<<"y", "o", "u", "r", "_", "i", "n", "s", "t", "a", "g", "r", "a", "m", "_", "a", "c", "t", "i", "v", "i", "t", "y", "/", "m", "e", "d", "i", "a", "/", "p", "o", "s", "t", "s", "_", "1", ".", "j", "s", "o", "n">>, ArrayStructure)>>],
       \* 2: the documented layout with flat items, and a directory entry
       [read |-> TRUE, valid |-> TRUE,
        entries |-> <<DirEntry(<<"m", "e", "d", "i", "a", "/">>),
                      FileEntry(<<"m", "e", "d", "i", "a", "/", "p", "o", "s", "t", "s", "/", "p", "2", "/", "b", ".", "j", "p", "g">>, JInvalid),
                      FileEntry(<<"y", "o", "u", "r", "_", "i", "n", "s", "t", "a", "g", "r", "a", "m", "_", "a", "c", "t", "i", "v", "i", "t", "y", "/", "m", "e", "d", "i", "a", "/", "p", "o", "s", "t", "s", ".", "j", "s", "o", "n">>, NestedMedia)>>],
       \* 3: images and an activity file that is not JSON
       [read |-> TRUE, valid |-> TRUE,
        entries |-> <<FileEntry(<<"m", "e", "d", "i", "a", "/", "p", "o", "s", "t", "s", "/", "p", "3", "/", "c", ".", "p", "n", "g">>, JInvalid),
                      FileEntry(<<"y", "o", "u", "r", "_", "i", "n", "s", "t", "a", "g", "r", "a", "m", "_", "a", "c", "t", "i", "v", "i", "t", "y", "/", "l", "i", "k", "e", "s", ".", "j", "s", "o", "n">>, JInvalid)>>],
       \* 4: no Instagram directories
       [read |-> TRUE, valid |-> TRUE,
        entries |-> <<FileEntry(<<"r", "e", "a", "d", "m", "e", ".", "t", "x", "t">>, JInvalid)>>],
       \* 5: not a ZIP file: loadAsync rejects
       [read |-> TRUE, valid |-> FALSE, entries |-> <<>>],
       \* 6: the second entry cannot be decompressed
       [read |-> TRUE, valid |-> TRUE,
        entries |-> <<FileEntry(<<"m", "e", "d", "i", "a", "/", "p", "o", "s", "t", "s", "/", "p", "6", "/", "f", ".", "j", "p", "g">>, JInvalid),
                      DamagedEntry(<<"y", "o", "u", "r", "_", "i", "n", "s", "t", "a", "g", "r", "a", "m", "_", "a", "c", "t", "i", "v", "i", "t", "y", "/", "m", "e", "d", "i", "a", "/", "p", "o", "s", "t", "s", "_", "1", ".", "j", "s", "o", "n">>)>>],
       \* 7: the file cannot be read: reader.onerror fires
       [read |-> FALSE, valid |-> FALSE, entries |-> <<>>] >>

\* the names of the file entries of an archive
fileNames(archive) ==
    {archive.entries[i].name : i \in {j \in 1..Len(archive.entries) : ~archive.entries[j].dir}}

\* the index of the first file entry after position pos, 0 when there is none
nextFile(archive, pos) ==
    LET later == {i \in (pos + 1)..Len(archive.entries) : ~archive.entries[i].dir}
    IN  IF later = {} THEN 0 ELSE CHOOSE i \in later : \A j \in later : i <= j

(***************************************************************************)
(* parseInstagramData from findDirectories() to Promise.all: no await in    *)
(* between, so it runs as one step on the table as it is then.              *)
(***************************************************************************)

\* createImageDataUrl finds bytes under imagePath and mints an object URL
hasBytes(table, imagePath) == hasKey(table, imagePath)

\* the object URLs createImageDataUrl returns for the matched posts, minted in
\* order from urlBase + 1; 0 stands for the empty string
imageUrls(table, matchedPosts, urlBase) ==
    [i \in 1..Len(matchedPosts) |->
        IF hasBytes(table, matchedPosts[i].imagePath)
        THEN urlBase + Cardinality({j \in 1..i : hasBytes(table, matchedPosts[j].imagePath)})
        ELSE 0]

\* metadataFiles.map(f => f.name): an ArrayBuffer has no name property
namesOf(metadataFiles) == [i \in 1..Len(metadataFiles) |-> JUndefined]

\* ids counted from 1
postIdFromOne(index) == <<"p", "o", "s", "t", "_">> \o numToString(index + 1)

postId(index) == <<"p", "o", "s", "t", "_">> \o numToString(index)

\* the posts array and the counts, once matching is done
assemble(table, imageFiles, metadataFiles, matchedPosts, urls) ==
    LET posts == [i \in 1..Len(matchedPosts) |->
                     [id |-> postId(i - 1),
                      image |-> urls[i],
                      caption |-> matchedPosts[i].caption,
                      timestamp |-> matchedPosts[i].timestamp,
                      selected |-> TRUE,
                      originalData |-> matchedPosts[i].originalData]]
    IN  [threw |-> FALSE,
         used |-> keysOf(table),
         imageFiles |-> imageFiles,
         metadataFiles |-> metadataFiles,
         names |-> namesOf(metadataFiles),
         matchedPosts |-> matchedPosts,
         posts |-> posts,
         totalPosts |-> Len(posts),
         totalImages |-> Len(imageFiles)]

\* Promise.all(matchedPosts.map(...)): every createImageDataUrl runs at once
createPosts(table, imageFiles, metadataFiles, matchedPosts, urlBase) ==
    assemble(table, imageFiles, metadataFiles, matchedPosts,
             imageUrls(table, matchedPosts, urlBase))

\* parseMetadata and matchPostsWithImages on what was found
matchFound(table, metadataFiles, imageFiles, clock, urlBase) ==
    createPosts(table, imageFiles, metadataFiles,
                matchPostsWithImages(parseMetadata(metadataFiles), imageFiles, clock),
                urlBase)

\* the steps after findDirectories() returned dirs
analyseIn(table, dirs, clock, urlBase) ==
    IF dirs.threw
    THEN [threw |-> TRUE, used |-> keysOf(table), imageFiles |-> <<>>,
          metadataFiles |-> <<>>, matchedPosts |-> <<>>, posts |-> <<>>]
    ELSE matchFound(table,
                    findMetadataFiles(table, dirs.activityDir),
                    findImageFiles(table, dirs.mediaDir),
                    clock, urlBase)

analyse(table, clock, urlBase) == analyseIn(table, findDirectories(table), clock, urlBase)

(***************************************************************************)
(* The parser instance held by TrainModel and the calls made on it          *)
(***************************************************************************)

\* number of parseInstagramData calls
MaxCalls == 2

\* number of cleanup() calls
MaxCleanups == 2

\* Date.now() when the component mounts
Now0 == 2000000000

Calls == 1..MaxCalls

\* A call: its position (pc, pos), its archive, the locals of
\* parseInstagramData and the result it returns.  Three fields record history:
\* alone (no other call was in flight while it ran), epoch (the number of
\* cleanup() calls made before it started) and intact (no cleanup() ran
\* between its start and the end of its extraction).
IdleCall ==
    [pc |-> "idle", archive |-> 0, pos |-> 0, clock |-> 0, used |-> <<>>,
     imageFiles |-> <<>>, metadataFiles |-> <<>>, names |-> <<>>,
     matchedPosts |-> <<>>, posts |-> <<>>, table |-> 0, error |-> <<>>,
     alone |-> FALSE, epoch |-> 0, intact |-> FALSE]

\* a call that is neither running nor waiting
atRest(call) == call.pc \in {"idle", "returned", "rejected"}

\* `${error}` for an Error with this message
errorString(message) == <<"E", "r", "r", "o", "r", ":", " ">> \o message

\* reject(new Error('Failed to read ZIP file'))
readError == errorString(<<"F", "a", "i", "l", "e", "d", " ", "t", "o", " ", "r", "e", "a", "d", " ", "Z", "I", "P", " ", "f", "i", "l", "e">>)

\* what JSZip rejects with; the text of its message is the library's
zipError == errorString(<<"JSZip message">>)

\* throw new Error('Could not find required directories in Instagram data')
directoriesError == errorString(<<"C", "o", "u", "l", "d", " ", "n", "o", "t", " ", "f", "i", "n", "d", " ", "r", "e", "q", "u", "i", "r", "e", "d", " ", "d", "i", "r", "e", "c", "t", "o", "r", "i", "e", "s", " ", "i", "n", " ", "I", "n", "s", "t", "a", "g", "r", "a", "m", " ", "d", "a", "t", "a">>)

\* an error message without the text the catch block puts before it
unwrapped(cause) == cause

\* catch (error) { throw new Error(`Failed to parse Instagram data: ${error}`) }
wrapped(cause) == <<"F", "a", "i", "l", "e", "d", " ", "t", "o", " ", "p", "a", "r", "s", "e", " ", "I", "n", "s", "t", "a", "g", "r", "a", "m", " ", "d", "a", "t", "a", ":", " ">> \o cause

\* the call rejects with the wrapped error
rejectedWith(call, cause) == [call EXCEPT !.pc = "rejected", !.error = wrapped(cause)]

\* the table this.extractedFiles refers to
currentTable == tables[extractedFiles]

\* new InstagramDataParser(): extractedFiles = {}
ParserInit ==
    /\ tables = << <<>> >>
    /\ extractedFiles = 1
    /\ calls = [c \in Calls |-> IdleCall]
    /\ liveUrls = {}
    /\ urlCount = 0
    /\ now = Now0
    /\ cleanups = 0

\* the call once the synchronous part that follows extraction gave r
settled(call, r, clock) ==
    [call EXCEPT !.pc = IF r.threw THEN "rejected" ELSE "assembling",
                 !.error = IF r.threw THEN wrapped(directoriesError) ELSE <<>>,
                 !.clock = clock,
                 !.intact = (call.epoch = cleanups),
                 !.names = namesOf(r.metadataFiles),
                 !.used = r.used,
                 !.imageFiles = r.imageFiles,
                 !.metadataFiles = r.metadataFiles,
                 !.matchedPosts = r.matchedPosts,
                 !.posts = r.posts]

\* the object URLs among the images of posts
urlsOf(posts) == {posts[i].image : i \in 1..Len(posts)} \ {0}

SettleWith(c, r) ==
    /\ calls' = [calls EXCEPT ![c] = settled(calls[c], r, now)]
    /\ liveUrls' = liveUrls \cup urlsOf(r.posts)
    /\ urlCount' = urlCount + Cardinality(urlsOf(r.posts))

\* extraction is over: findDirectories .. createImageDataUrl on table
Settle(c, table) == SettleWith(c, analyse(table, now, urlCount))

\* handleFileUpload: parseInstagramData(zipFile) runs up to readAsArrayBuffer.
\* The clock has moved on since the previous upload.
parseInstagramData(c, a) ==
    /\ calls[c].pc = "idle"
    /\ \A d \in 1..(c - 1) : calls[d].pc # "idle"
    /\ calls' = [d \in Calls |->
                    IF d = c
                    THEN [calls[d] EXCEPT !.pc = "loading",
                                          !.archive = a,
                                          !.alone = \A e \in Calls : atRest(calls[e]),
                                          !.epoch = cleanups]
                    ELSE IF atRest(calls[d]) THEN calls[d]
                    ELSE [calls[d] EXCEPT !.alone = FALSE]]
    /\ now' = now + 1
    /\ UNCHANGED <<tables, extractedFiles, liveUrls, urlCount, cleanups>>

\* reader.onerror, or reader.onload: import('jszip') and zip.loadAsync
\* settle; the loop starts and suspends at the first file.async, or ends at
\* once without files
loadAsync(c) ==
    LET archive == Archives[calls[c].archive]
    IN  /\ calls[c].pc = "loading"
        /\ IF ~archive.read
           THEN /\ calls' = [calls EXCEPT ![c] = rejectedWith(@, readError)]
                /\ UNCHANGED <<liveUrls, urlCount>>
           ELSE IF ~archive.valid
           THEN /\ calls' = [calls EXCEPT ![c] = rejectedWith(@, zipError)]
                /\ UNCHANGED <<liveUrls, urlCount>>
           ELSE IF nextFile(archive, 0) = 0
           THEN Settle(c, currentTable)
           ELSE /\ calls' = [calls EXCEPT ![c] = [@ EXCEPT !.pc = "extracting",
                                                          !.pos = nextFile(archive, 0)]]
                /\ UNCHANGED <<liveUrls, urlCount>>
        /\ UNCHANGED <<tables, extractedFiles, now, cleanups>>

\* file.async('arraybuffer') settles for the entry at pos:
\* this.extractedFiles[filename] = fileContent, then the next entry, or
\* resolve() and the rest of parseInstagramData up to Promise.all
extractZipFile(c) ==
    LET archive == Archives[calls[c].archive]
        entry == archive.entries[calls[c].pos]
        content == [buf |-> <<c, calls[c].pos>>, json |-> entry.json]
    IN  /\ calls[c].pc = "extracting"
        /\ IF ~entry.readable
           THEN /\ calls' = [calls EXCEPT ![c] = rejectedWith(@, zipError)]
                /\ UNCHANGED <<tables, liveUrls, urlCount>>
           ELSE /\ tables' = [tables EXCEPT
                                 ![extractedFiles] = store(@, entry.name, content)]
                /\ IF nextFile(archive, calls[c].pos) # 0
                   THEN /\ calls' = [calls EXCEPT ![c].pos = nextFile(archive, calls[c].pos)]
                        /\ UNCHANGED <<liveUrls, urlCount>>
                   ELSE Settle(c, tables'[extractedFiles])
        /\ UNCHANGED <<extractedFiles, now, cleanups>>

\* Promise.all settles: the result object is built, with
\* extractedFiles: this.extractedFiles read at that moment
returnResult(c) ==
    /\ calls[c].pc = "assembling"
    /\ calls' = [calls EXCEPT ![c] = [@ EXCEPT !.pc = "returned", !.table = extractedFiles]]
    /\ UNCHANGED <<tables, extractedFiles, liveUrls, urlCount, now, cleanups>>

\* cleanup() without its last line: the table stays as it is
cleanupKeeps ==
    /\ cleanups < MaxCleanups
    /\ cleanups' = cleanups + 1
    /\ UNCHANGED <<tables, extractedFiles, calls, liveUrls, urlCount, now>>

\* cleanup(): the loop over the entries revokes nothing;
\* this.extractedFiles = {} makes a new, empty table
cleanup ==
    /\ cleanups < MaxCleanups
    /\ tables' = Append(tables, <<>>)
    /\ extractedFiles' = Len(tables) + 1
    /\ cleanups' = cleanups + 1
    /\ UNCHANGED <<calls, liveUrls, urlCount, now>>

FnIdle ==
    /\ fnPc = "unused"
    /\ fnArg = <<>>
    /\ fnRet = <<>>

Init == ParserInit /\ FnIdle

Next ==
    \/ \E c \in Calls, a \in 1..Len(Archives) : parseInstagramData(c, a) /\ UNCHANGED fnVars
    \/ \E c \in Calls : loadAsync(c) /\ UNCHANGED fnVars
    \/ \E c \in Calls : extractZipFile(c) /\ UNCHANGED fnVars
    \/ \E c \in Calls : returnResult(c) /\ UNCHANGED fnVars
    \/ cleanup /\ UNCHANGED fnVars

Spec == Init /\ [][Next]_vars

(***************************************************************************)
(* Properties of the parser under Spec                                      *)
(***************************************************************************)

\* the call got past findDirectories and built its posts
analysed(call) == call.pc \in {"assembling", "returned"}

\* the paths in a sequence
Range(seq) == {seq[i] : i \in 1..Len(seq)}

\* no call so far overlapped another
Sequential == \A c \in Calls : calls[c].pc = "idle" \/ calls[c].alone

\* C1 (the claim as stated): the README's Array Structure, parsed on its own by
\* a new parser, gives one post with the item's title "A" as caption and the
\* nested creation_timestamp 1000 as timestamp.
C1_HappyPath ==
    \A c \in Calls :
        (/\ analysed(calls[c])
         /\ calls[c].archive = 1
         /\ calls[c].used = <<<<"m", "e", "d", "i", "a", "/", "p", "o", "s", "t", "s", "/", "p", "1", "/", "a", ".", "j", "p", "g">>,
                              <<"y", "o", "u", "r", "_", "i", "n", "s", "t", "a", "g", "r", "a", "m", "_", "a", "c", "t", "i", "v", "i", "t", "y", "/", "m", "e", "d", "i", "a", "/", "p", "o", "s", "t", "s", "_", "1", ".", "j", "s", "o", "n">>>>)
        => /\ Len(calls[c].posts) = 1
           /\ calls[c].posts[1].caption = <<"A">>
           /\ calls[c].posts[1].timestamp = TsNumber(1000)

\* C2 (the claim as stated): when calls follow one another on one parser and
\* cleanup() is never called, the table a call works on holds exactly the
\* file entries of that call's archive.
C2_RunIsolation ==
    (Sequential /\ cleanups = 0)
    => \A c \in Calls :
           analysed(calls[c]) => Range(calls[c].used) = fileNames(Archives[calls[c].archive])

\* C3 (the claim as stated): when cleanup() returns, no object URL minted by
\* the parser is live and the parser's table is empty.
C3_TeardownReleases ==
    [][cleanups' = cleanups + 1 => (liveUrls' = {} /\ tables'[extractedFiles'] = <<>>)]_vars

\* the archive cannot be read, opened or decompressed
unusable(archive) ==
    \/ ~archive.read
    \/ ~archive.valid
    \/ \E i \in 1..Len(archive.entries) : ~archive.entries[i].dir /\ ~archive.entries[i].readable

\* a required root is not found among the paths
rootsMissing(paths) == findMediaDir(paths) = <<>> \/ findActivityDir(paths) = <<>>

\* the call is over, or waits only for its object URLs
pastExtraction(call) == call.pc \in {"rejected", "assembling", "returned"}

\* C12: when the archive cannot be read, opened or decompressed, or a root is
\* not found among the paths of the table, parseInstagramData rejects with one
\* Error whose message is "Failed to parse Instagram data: " followed by the
\* cause, and the caller gets no result and no table.
C12_FatalErrorPropagation ==
    \A c \in Calls :
        (/\ pastExtraction(calls[c])
         /\ unusable(Archives[calls[c].archive]) \/ rootsMissing(calls[c].used))
        => /\ calls[c].pc = "rejected"
           /\ startsWith(calls[c].error, <<"F", "a", "i", "l", "e", "d", " ", "t", "o", " ", "p", "a", "r", "s", "e", " ", "I", "n", "s", "t", "a", "g", "r", "a", "m", " ", "d", "a", "t", "a", ":", " ">>)
           /\ ~startsWith(substringFrom(calls[c].error, Len(<<"F", "a", "i", "l", "e", "d", " ", "t", "o", " ", "p", "a", "r", "s", "e", " ", "I", "n", "s", "t", "a", "g", "r", "a", "m", " ", "d", "a", "t", "a", ":", " ">>)),
                          <<"F", "a", "i", "l", "e", "d", " ", "t", "o", " ", "p", "a", "r", "s", "e", " ", "I", "n", "s", "t", "a", "g", "r", "a", "m", " ", "d", "a", "t", "a", ":", " ">>)
           /\ calls[c].table = 0
           /\ calls[c].posts = <<>>

\* C12 witness: a call was rejected because an entry could not be
\* decompressed, after it had stored another entry in the parser's table
C12_Witness ==
    \E c \in Calls :
        /\ calls[c].pc = "rejected"
        /\ calls[c].archive = 6
        /\ calls[c].error = <<"F", "a", "i", "l", "e", "d", " ", "t", "o", " ", "p", "a", "r", "s", "e", " ", "I", "n", "s", "t", "a", "g", "r", "a", "m", " ", "d", "a", "t", "a", ":", " ", "E", "r", "r", "o", "r", ":", " ">> \o <<"JSZip message">>
        /\ Len(currentTable) > 0

\* C16: cleanup() can be called in every state of the parser, before any
\* parse and again after a cleanup(); it does not throw, it leaves the parser
\* with an empty table, as a new parser has, and it touches nothing else.
C16_TeardownIdempotent ==
    /\ [](cleanups < MaxCleanups => ENABLED cleanup)
    /\ [][cleanups' = cleanups + 1 =>
              /\ tables'[extractedFiles'] = <<>>
              /\ calls' = calls
              /\ liveUrls' = liveUrls]_vars

\* C16 witness: a call returned a table with files in it, then cleanup() ran
\* twice in a row and the parser's table is empty
C16_Witness ==
    /\ cleanups = 2
    /\ calls[1].pc = "returned" /\ calls[1].table = 1 /\ Len(tables[1]) > 0
    /\ \A c \in Calls \ {1} : calls[c].pc = "idle"
    /\ currentTable = <<>>

\* the keys of a table and what their buffers hold, whichever buffer holds it
bytesOf(table) == [i \in 1..Len(table) |-> <<table[i].path, table[i].content.json>>]

\* C18 (the claim as stated): once a call has returned its result, no later
\* step of the parser changes the keys or the contents of the table that the
\* result carries.
C18_ReturnedTableFrozen ==
    [][\A c \in Calls :
           calls[c].pc = "returned" =>
               bytesOf(tables'[calls[c].table]) = bytesOf(tables[calls[c].table])]_vars

\* the table a new parser holds after it extracted the entries from i on
RECURSIVE storeAll(_, _, _)
storeAll(table, entries, i) ==
    IF i > Len(entries) THEN table
    ELSE storeAll(IF entries[i].dir THEN table
                  ELSE store(table, entries[i].name, [buf |-> i, json |-> entries[i].json]),
                  entries, i + 1)

\* what the call would have given had it run alone on a new parser
aloneResult(call) == analyse(storeAll(<<>>, Archives[call.archive].entries, 1), call.clock, 0)

\* the call ended as r did: rejected alike, or with the same located images
\* and, post by post, the same caption, timestamp, original data and image
sameOutcome(call, r) ==
    /\ (call.pc = "rejected") = r.threw
    /\ ~r.threw =>
           /\ call.imageFiles = r.imageFiles
           /\ Len(call.posts) = Len(r.posts)
           /\ \A i \in 1..Len(r.posts) :
                  /\ call.posts[i].caption = r.posts[i].caption
                  /\ call.posts[i].timestamp = r.posts[i].timestamp
                  /\ call.posts[i].originalData = r.posts[i].originalData
                  /\ call.matchedPosts[i].imagePath = r.matchedPosts[i].imagePath

\* C19 (the claim as stated): when the calls made on a new parser overlap,
\* each call on a usable archive ends as it would have ended alone on its own
\* archive, whatever the interleaving.
C19_ConcurrentRuns ==
    (/\ cleanups = 0
     /\ \A d \in Calls : calls[d].pc = "idle" \/ ~calls[d].alone)
    => \A c \in Calls :
           (pastExtraction(calls[c]) /\ ~unusable(Archives[calls[c].archive]))
           => sameOutcome(calls[c], aloneResult(calls[c]))

\* calls c and c + 1 parse the same archive one after the other, undisturbed:
\* neither overlaps another call and no cleanup() runs during either.  With a
\* cleanup() between the two this is the same archive on two new parsers;
\* without, the same archive twice on one parser.
ParsedTwice(c) ==
    /\ c + 1 \in Calls
    /\ analysed(calls[c]) /\ analysed(calls[c + 1])
    /\ calls[c].archive = calls[c + 1].archive
    /\ calls[c].alone /\ calls[c + 1].alone
    /\ calls[c].intact /\ calls[c + 1].intact
    /\ \/ calls[c].epoch = calls[c + 1].epoch
       \/ calls[c].used = calls[c + 1].used

\* totalPosts, totalImages, the metadata file names, and caption and image
\* path of every post agree
SameContent(x, y) ==
    /\ Len(x.posts) = Len(y.posts)
    /\ Len(x.imageFiles) = Len(y.imageFiles)
    /\ x.names = y.names
    /\ \A i \in 1..Len(x.posts) :
           /\ x.posts[i].caption = y.posts[i].caption
           /\ x.matchedPosts[i].imagePath = y.matchedPosts[i].imagePath

SameTimestamps(x, y) ==
    \A i \in 1..Len(x.posts) : x.posts[i].timestamp = y.posts[i].timestamp

\* post i of call x is a synthetic post: no metadata behind it, and the time
\* of the call less i - 1 days as its timestamp
Synthetic(x, i) ==
    /\ x.posts[i].originalData = JObj(<<>>)
    /\ x.posts[i].timestamp = TsNumber(x.clock - ((i - 1) * DayMs))

\* C10 (the claim as stated): parsing the same archive twice gives the same
\* totalPosts, totalImages, metadata file names and, post by post, the same
\* caption, timestamp and image path.
C10_Idempotence ==
    \A c \in Calls :
        ParsedTwice(c) => /\ SameContent(calls[c], calls[c + 1])
                          /\ SameTimestamps(calls[c], calls[c + 1])

\* C10 (amended): parsing the same archive twice gives the same totalPosts,
\* totalImages, metadata file names and, post by post, the same caption and
\* image path; the timestamps agree on the posts made from metadata, while a
\* synthetic post carries in each result the time of that call less i - 1 days.
C10_IdempotenceButClock ==
    \A c \in Calls :
        ParsedTwice(c) =>
            /\ SameContent(calls[c], calls[c + 1])
            /\ \A i \in 1..Len(calls[c].posts) :
                   \/ calls[c].posts[i].timestamp = calls[c + 1].posts[i].timestamp
                   \/ Synthetic(calls[c], i) /\ Synthetic(calls[c + 1], i)

\* C10 witness: the same archive was parsed twice, with posts in the result,
\* once and again on one parser without a cleanup() in between
C10_Witness ==
    \E c \in Calls :
        /\ ParsedTwice(c)
        /\ calls[c].epoch = calls[c + 1].epoch
        /\ calls[c].pc = "returned" /\ calls[c + 1].pc = "returned"
        /\ Len(calls[c + 1].posts) > 0

(***************************************************************************)
(* findDirectories on its own: every table of up to MaxPaths paths of the   *)
(* pool, in every order                                                     *)
(***************************************************************************)

\* number of entries in a table handed to findDirectories
MaxPaths == 3

PathPool ==
    <<<<"m", "e", "d", "i", "a", "/", "p", "o", "s", "t", "s", "/", "p", "1", "/", "a", ".", "j", "p", "g">>,
      <<"m", "e", "d", "i", "a", "/", "p", "o", "s", "t", "s", "/", "p", "2", "/", "b", ".", "p", "n", "g">>,
      <<"y", "o", "u", "r", "_", "i", "n", "s", "t", "a", "g", "r", "a", "m", "_", "a", "c", "t", "i", "v", "i", "t", "y", "/", "m", "e", "d", "i", "a", "/", "p", "o", "s", "t", "s", "_", "1", ".", "j", "s", "o", "n">>,
      <<"y", "o", "u", "r", "_", "i", "n", "s", "t", "a", "g", "r", "a", "m", "_", "a", "c", "t", "i", "v", "i", "t", "y", "/", "l", "i", "k", "e", "s", ".", "j", "s", "o", "n">>,
      <<"p", "o", "s", "t", "s", "/", "m", "e", "d", "i", "a", "/", "c", ".", "j", "p", "g">>,
      <<"x", "/", "p", "o", "s", "t", "s", "/", "m", "e", "d", "i", "a", "/", "c", ".", "j", "p", "g">>,
      <<"r", "e", "a", "d", "m", "e", ".", "t", "x", "t">>,
      <<"e", "x", "p", "o", "r", "t", "/", "m", "e", "d", "i", "a", "/", "p", "o", "s", "t", "s", "/", "p", "1", "/", "a", ".", "j", "p", "g">>,
      <<"e", "x", "p", "o", "r", "t", "/", "y", "o", "u", "r", "_", "i", "n", "s", "t", "a", "g", "r", "a", "m", "_", "a", "c", "t", "i", "v", "i", "t", "y", "/", "m", "e", "d", "i", "a", "/", "p", "o", "s", "t", "s", "_", "1", ".", "j", "s", "o", "n">>,
      <<"m", "e", "d", "i", "a", "/", "o", "t", "h", "e", "r", "/", "d", ".", "j", "p", "g">>>>

\* the sequences of up to n distinct indices of a pool of size m
Arrangements(m, n) ==
    UNION {{s \in [1..k -> 1..m] : \A i, j \in 1..k : i # j => s[i] # s[j]} : k \in 0..n}

\* the table holding the chosen paths in the chosen order
tableOfPaths(choice) ==
    [i \in 1..Len(choice) |->
        [path |-> PathPool[choice[i]], content |-> [buf |-> <<0, i>>, json |-> JInvalid]]]

ResolveInit ==
    /\ ParserInit
    /\ fnPc = "ready"
    /\ fnArg \in Arrangements(Len(PathPool), MaxPaths)
    /\ fnRet = <<>>

callFindDirectories ==
    /\ fnPc = "ready"
    /\ fnRet' = findDirectories(tableOfPaths(fnArg))
    /\ fnPc' = "done"
    /\ UNCHANGED <<fnArg, parserVars>>

ResolveNext == callFindDirectories

SpecResolve == ResolveInit /\ [][ResolveNext]_vars

\* the path has the form .../media/.../posts/...: "media" occurs in it and
\* "posts" occurs after it
mediaPostsForm(path) ==
    \E i \in occurrences(path, <<"m", "e", "d", "i", "a">>) :
        \E j \in occurrences(path, <<"p", "o", "s", "t", "s">>) : i + Len(<<"m", "e", "d", "i", "a">>) <= j

\* C8 (the claim as stated): findDirectories succeeds exactly when the table
\* has a path of the form .../media/.../posts/... and a path that contains
\* your_instagram_activity.
C8_RootDetectionTotality ==
    fnPc = "done" =>
        LET paths == keysOf(tableOfPaths(fnArg))
        IN  ~fnRet.threw <=>
                /\ \E i \in 1..Len(paths) : mediaPostsForm(paths[i])
                /\ \E i \in 1..Len(paths) : includes(paths[i], <<"y", "o", "u", "r", "_", "i", "n", "s", "t", "a", "g", "r", "a", "m", "_", "a", "c", "t", "i", "v", "i", "t", "y">>)

\* the archive is laid out as documented under the prefix: images under
\* <prefix>media/posts/, metadata JSON under <prefix>your_instagram_activity/media/
Documented(paths, prefix) ==
    /\ \E i \in 1..Len(paths) : startsWith(paths[i], prefix \o <<"m", "e", "d", "i", "a", "/", "p", "o", "s", "t", "s", "/">>)
    /\ \E i \in 1..Len(paths) : startsWith(paths[i], prefix \o <<"y", "o", "u", "r", "_", "i", "n", "s", "t", "a", "g", "r", "a", "m", "_", "a", "c", "t", "i", "v", "i", "t", "y", "/", "m", "e", "d", "i", "a", "/">>)
    /\ \A i \in 1..Len(paths) :
           \/ startsWith(paths[i], prefix \o <<"m", "e", "d", "i", "a", "/", "p", "o", "s", "t", "s", "/">>)
           \/ /\ startsWith(paths[i], prefix \o <<"y", "o", "u", "r", "_", "i", "n", "s", "t", "a", "g", "r", "a", "m", "_", "a", "c", "t", "i", "v", "i", "t", "y", "/", "m", "e", "d", "i", "a", "/">>)
              /\ endsWith(paths[i], <<".", "j", "s", "o", "n">>)

\* C9 (the claim as stated): on an archive laid out as documented, whatever
\* the order of its entries, findDirectories resolves a media root that is a
\* prefix of every image path under <prefix>media/posts/.
C9_MediaRootIsPrefix ==
    fnPc = "done" =>
        LET paths == keysOf(tableOfPaths(fnArg))
        IN  \A prefix \in {<<>>, <<"e", "x", "p", "o", "r", "t", "/">>} :
                Documented(paths, prefix) =>
                    /\ ~fnRet.threw
                    /\ \A i \in 1..Len(paths) :
                           startsWith(paths[i], prefix \o <<"m", "e", "d", "i", "a", "/", "p", "o", "s", "t", "s", "/">>)
                               => startsWith(paths[i], fnRet.mediaDir)

(***************************************************************************)
(* extractPostInfo on its own: items whose media-URI fields and title take  *)
(* every combination of absent, blank and usable values, and items with one *)
(* field of another JSON type                                               *)
(***************************************************************************)

\* a usable value for each media-URI field, each different
GoodUri == <<<<"u", ".", "j", "p", "g">>, <<"m", ".", "j", "p", "g">>, <<"f", ".", "j", "p", "g">>, <<"p", ".", "j", "p", "g">>, <<"l", ".", "j", "p", "g">>>>

\* the values a field takes: 0 absent, 1 blank, 2 usable, 3.. the others
FieldValues(k) ==
    <<JStr(<<" ">>), JStr(GoodUri[k]), JStr(<<" ", "a", ".", "j", "p", "g", " ">>), JStr(<<>>), JNum(7), JNum(0),
      JBool(TRUE), JBool(FALSE), JNull, JArr(<<>>), JArr(<<JStr(<<"b", ".", "j", "p", "g">>)>>),
      JObj(<<>>), JObj(<< <<"toString", JNum(1)>> >>)>>

\* the values of the title: 0 absent
TitleValues == <<JStr(<<"T">>), JStr(<<" ">>), JObj(<< <<"toString", JNum(1)>> >>)>>

\* a choice: a value number for each of the five media-URI fields, then one
\* for the title; at most one media-URI field has a value beyond 2
ItemChoices ==
    {ch \in [1..6 -> 0..13] :
        /\ ch[6] <= Len(TitleValues)
        /\ Cardinality({k \in 1..5 : ch[k] > 2}) <= 1}

\* the object of a choice, its properties in the order title, uri, .., url
itemOf(ch) ==
    LET F[k \in 0..5] ==
            IF k = 0
            THEN IF ch[6] = 0 THEN <<>> ELSE << <<"title", TitleValues[ch[6]]>> >>
            ELSE IF ch[k] = 0 THEN F[k - 1]
            ELSE Append(F[k - 1], <<mediaUriKeys[k], FieldValues(k)[ch[k]]>>)
    IN  JObj(F[5])

ExtractInit ==
    /\ ParserInit
    /\ fnPc = "ready"
    /\ fnArg \in ItemChoices
    /\ fnRet = <<>>

callExtractPostInfo ==
    /\ fnPc = "ready"
    /\ fnRet' = extractPostInfo(itemOf(fnArg))
    /\ fnPc' = "done"
    /\ UNCHANGED <<fnArg, parserVars>>

ExtractNext == callExtractPostInfo

SpecExtract == ExtractInit /\ [][ExtractNext]_vars

\* the value the item holds under the k-th media-URI field
uriField(item, k) == get(item, mediaUriKeys[k])

\* the least element of a non-empty set of numbers
Least(S) == CHOOSE k \in S : \A j \in S : k <= j

\* C7 (the claim as stated): an item with a truthy value under a media-URI
\* field gives exactly one PostInfo, carrying the value of the first such
\* field; an item without gives none.
C7_ExtractionCompleteness ==
    fnPc = "done" =>
        LET item == itemOf(fnArg)
            held == {k \in 1..5 : truthy(uriField(item, k))}
        IN  IF held = {}
            THEN fnRet.info = <<>>
            ELSE /\ Len(fnRet.info) = 1
                 /\ fnRet.info[1].mediaUri = trim(toString(uriField(item, Least(held))))

\* the value is truthy and its string form, trimmed, is not empty
usable(v) == truthy(v) /\ ~toStringThrows(v) /\ trim(toString(v)) # <<>>

\* the loop over the fields reaches a truthy value whose toString throws
\* before it finds a usable one
throwsIn(item, keys) ==
    \E k \in 1..Len(keys) :
        /\ truthy(get(item, keys[k])) /\ toStringThrows(get(item, keys[k]))
        /\ \A j \in 1..(k - 1) : ~usable(get(item, keys[j]))

\* C7 (amended): an item with, under a media-URI field, a truthy value whose
\* string form is not blank gives exactly one PostInfo, carrying the trimmed
\* string form of the first such field; an item without gives none: a truthy
\* but blank value is passed over.  The call throws, and gives nothing, when a
\* caption or media-URI value it converts has no callable toString.
C7_ExtractionOfNonBlank ==
    fnPc = "done" =>
        LET item == itemOf(fnArg)
            held == {k \in 1..5 : usable(uriField(item, k))}
        IN  IF throwsIn(item, captionKeys) \/ throwsIn(item, mediaUriKeys)
            THEN fnRet.threw /\ fnRet.info = <<>>
            ELSE IF held = {}
            THEN ~fnRet.threw /\ fnRet.info = <<>>
            ELSE /\ ~fnRet.threw
                 /\ Len(fnRet.info) = 1
                 /\ fnRet.info[1].mediaUri = trim(toString(uriField(item, Least(held))))

\* C7 witness: the first media-URI field is blank and a later one is usable,
\* and the PostInfo carries the later one
C7_Witness ==
    /\ fnPc = "done"
    /\ fnArg[1] = 1 /\ fnArg[2] = 0 /\ fnArg[3] = 2
    /\ Len(fnRet.info) = 1
    /\ fnRet.info[1].mediaUri = GoodUri[3]

(***************************************************************************)
(* matchPostsWithImages on its own: the PostInfos of up to MaxPosts items   *)
(* against up to MaxPick images of the pool in every order, or against a    *)
(* long run of images around the limit of the fallback                      *)
(***************************************************************************)

\* number of metadata items
MaxPosts == 2

\* number of images picked from the pool
MaxPick == 3

\* length of the longest run of images
MaxImages == 21

MatchItems ==
    <<JObj(<< <<"title", JStr(<<"T", "1">>)>>, <<"uri", JStr(<<"m", "e", "d", "i", "a", "/", "p", "o", "s", "t", "s", "/", "p", "1", "/", "a", ".", "j", "p", "g">>)>> >>),
      JObj(<< <<"title", JStr(<<"T", "2">>)>>, <<"uri", JStr(<<"q", "/", "w", ".", "g", "i", "f">>)>> >>),
      JObj(<< <<"title", JStr(<<"T", "3">>)>>, <<"uri", JStr(<<"q", "/", "w", ".", "g", "i", "f">>)>>,
              <<"creation_timestamp", JNum(5)>> >>),
      JObj(<< <<"uri", JStr(<<"p", "1">>)>> >>),
      JObj(<< <<"uri", JStr(<<"x", "/", "c", "o", "n", "s", "t", "r", "u", "c", "t", "o", "r">>)>> >>),
      JObj(<< <<"uri", JStr(<<"q", "/", "w", ".", "g", "i", "f">>)>>, <<"date", JStr(<<"1", "9", "7", "0">>)>> >>),
      JObj(<< <<"uri", JStr(<<"q", "/", "w", ".", "g", "i", "f">>)>>, <<"date", JStr(<<"s", "o", "o", "n">>)>> >>)>>

ImagePool ==
    <<<<"m", "e", "d", "i", "a", "/", "p", "o", "s", "t", "s", "/", "p", "1", ".", "j", "p", "g">>,
      <<"m", "e", "d", "i", "a", "/", "p", "o", "s", "t", "s", "/", "p", "1", "/", "a", ".", "j", "p", "g">>,
      <<"m", "e", "d", "i", "a", "/", "p", "o", "s", "t", "s", "/", "p", "2", "/", "a", ".", "j", "p", "g">>,
      <<"m", "e", "d", "i", "a", "/", "p", "o", "s", "t", "s", "/", "z", "z", ".", "p", "n", "g">>>>

\* a run of n images media/posts/n1.jpg .. media/posts/n<n>.jpg
imageRun(n) == [k \in 1..n |-> <<"m", "e", "d", "i", "a", "/", "p", "o", "s", "t", "s", "/", "n">> \o numToString(k) \o <<".", "j", "p", "g">>]

MatchInputs ==
    {[items |-> its, pick |-> pk, run |-> 0] :
        its \in UNION {[1..k -> 1..Len(MatchItems)] : k \in 0..MaxPosts},
        pk \in Arrangements(Len(ImagePool), MaxPick)}
    \cup
    {[items |-> its, pick |-> <<>>, run |-> n] :
        its \in UNION {[1..k -> 1..Len(MatchItems)] : k \in 0..MaxPosts},
        n \in (FallbackCap - 1)..MaxImages}

\* the items array of an input
itemsIn(arg) == [i \in 1..Len(arg.items) |-> MatchItems[arg.items[i]]]

\* postsData: what parseMetadata makes of the items
postsIn(arg) == processItems(itemsIn(arg))

\* imageFiles
imagesIn(arg) ==
    IF arg.run > 0 THEN imageRun(arg.run)
    ELSE [i \in 1..Len(arg.pick) |-> ImagePool[arg.pick[i]]]

MatchInit ==
    /\ ParserInit
    /\ fnPc = "ready"
    /\ fnArg \in MatchInputs
    /\ fnRet = <<>>

callMatchPostsWithImages ==
    /\ fnPc = "ready"
    /\ fnRet' = matchPostsWithImages(postsIn(fnArg), imagesIn(fnArg), now)
    /\ fnPc' = "done"
    /\ UNCHANGED <<fnArg, parserVars>>

MatchNext == callMatchPostsWithImages

SpecMatch == MatchInit /\ [][MatchNext]_vars

\* uri.split('/') and its last segment
segmentsOf(uri) == split(uri, "/")

lastSegment(uri) == segmentsOf(uri)[Len(segmentsOf(uri))]

\* the filenames of the images
filenamesOf(imageFiles) == {filenameOf(imageFiles[i]) : i \in 1..Len(imageFiles)}

\* the media URI of the item a pair was made from
uriBehind(pair) == get(pair.originalData, "uri").s

\* C4: a PostInfo whose media URI ends in the filename of an image is paired,
\* and with an image of exactly that filename, also when the filename of an
\* earlier image contains a segment of the URI.
C4_ExactBeatsPartial ==
    fnPc = "done" =>
        LET names == filenamesOf(imagesIn(fnArg))
            posts == postsIn(fnArg)
        IN  /\ \A i \in 1..Len(posts) :
                   lastSegment(posts[i].mediaUri) \in names
                       => \E k \in 1..Len(fnRet) :
                              fnRet[k].originalData = posts[i].originalData
            /\ \A k \in 1..Len(fnRet) :
                   lastSegment(uriBehind(fnRet[k])) \in names
                       => filenameOf(fnRet[k].imagePath) = lastSegment(uriBehind(fnRet[k]))

\* C4 witness: the image p1.jpg, whose name contains the segment p1 of the
\* URI media/posts/p1/a.jpg, comes before the image p1/a.jpg, and the post is
\* paired with p1/a.jpg
C4_Witness ==
    /\ fnPc = "done"
    /\ fnArg.items = <<1>>
    /\ fnArg.pick = <<1, 2>>
    /\ Len(fnRet) = 1
    /\ fnRet[1].imagePath = ImagePool[2]

\* no image filename equals the last segment of the URI or contains one of
\* its segments
matchesNoFilename(uri, imageFiles) ==
    /\ lastSegment(uri) \notin filenamesOf(imageFiles)
    /\ \A k \in 1..Len(segmentsOf(uri)) :
           segmentsOf(uri)[k] # <<>>
               => \A name \in filenamesOf(imageFiles) : ~includes(name, segmentsOf(uri)[k])

\* the result is one synthetic post per image, up to limit of them, in the
\* order of the images, with captions Instagram post 1, 2, .. and timestamps
\* that strictly decrease
SyntheticResult(result, imageFiles, limit) ==
    /\ Len(result) = limit
    /\ \A i \in 1..Len(result) :
           /\ result[i].imagePath = imageFiles[i]
           /\ result[i].caption = <<"I", "n", "s", "t", "a", "g", "r", "a", "m", " ", "p", "o", "s", "t", " ">> \o numToString(i)
           /\ result[i].originalData = JObj(<<>>)
           /\ result[i].timestamp.k = "number"
    /\ \A i \in 1..(Len(result) - 1) : result[i].timestamp.n > result[i + 1].timestamp.n

\* C5 (the claim as stated): metadata whose URIs match no image filename and N
\* images give exactly N synthetic posts.
C5_NoMatchScenario ==
    fnPc = "done" =>
        LET posts == postsIn(fnArg)
            images == imagesIn(fnArg)
        IN  (/\ Len(posts) > 0
             /\ \A i \in 1..Len(posts) : matchesNoFilename(posts[i].mediaUri, images))
            => SyntheticResult(fnRet, images, Len(images))

\* the URI lookup pairs the URI with nothing: no filename matches, and the
\* last segment is not a name the filename map inherits (imageMap[name] is
\* truthy for those, and the lookup takes it for an image)
lookupFindsNothing(uri, imageFiles) ==
    /\ matchesNoFilename(uri, imageFiles)
    /\ lastSegment(uri) \notin ObjectPrototypeKeys

\* C5 (amended): metadata none of whose URIs the lookup pairs with an image,
\* and none of whose items has a non-zero timestamp, with N images, gives
\* exactly min(N, 20) synthetic posts.
C5_NoMatchNoTimestamp ==
    fnPc = "done" =>
        LET posts == postsIn(fnArg)
            images == imagesIn(fnArg)
        IN  (/\ Len(posts) > 0
             /\ \A i \in 1..Len(posts) :
                    /\ lookupFindsNothing(posts[i].mediaUri, images)
                    /\ ~(posts[i].timestamp.k = "number" /\ posts[i].timestamp.n # 0))
            => SyntheticResult(fnRet, images, Min(Len(images), 20))

\* C5 witness: the stated case, URIs that match nothing and three images,
\* gives three synthetic posts
C5_Witness ==
    /\ fnPc = "done"
    /\ fnArg.items = <<2, 7>>
    /\ Len(fnArg.pick) = 3
    /\ SyntheticResult(fnRet, imagesIn(fnArg), 3)

\* C6: when no PostInfo was paired and there are n images, the result is
\* min(n, 20) synthetic pairs, the i-th on the i-th image.
C6_FallbackCap ==
    fnPc = "done" =>
        LET images == imagesIn(fnArg)
        IN  (/\ Len(images) > 0
             /\ matchLoop(postsIn(fnArg), buildImageMap(<<>>, images), images) = <<>>)
            => /\ Len(fnRet) = Min(Len(images), 20)
               /\ \A i \in 1..Len(fnRet) :
                      /\ fnRet[i].imagePath = images[i]
                      /\ fnRet[i].originalData = JObj(<<>>)

\* C6 witness: 21 images and no PostInfo paired: 20 pairs, the last on the
\* twentieth image
C6_Witness ==
    /\ fnPc = "done"
    /\ fnArg.run = 21
    /\ Len(fnRet) = 20
    /\ fnRet[20].imagePath = imageRun(21)[20]
    /\ fnRet[20].originalData = JObj(<<>>)


(***************************************************************************)
(* The synchronous part of parseInstagramData, step by step, on every table *)
(* of up to MaxEntries files of a pool, in every order                      *)
(***************************************************************************)

\* number of files in the table
MaxEntries == 3

\* the files: a path and what JSON.parse makes of the bytes; the items probe
\* the fields extractPostInfo reads
FilePool ==
    LET ItemA ==
            JObj(<< <<"title", JStr(<<"A">>)>>,
                    <<"uri", JStr(<<"m", "e", "d", "i", "a", "/", "p", "o", "s", "t", "s", "/", "p", "1", "/", "a", ".", "j", "p", "g">>)>>,
                    <<"creation_timestamp", JNum(1000)>> >>)
        ItemB ==
            JObj(<< <<"caption", JStr(<<" ", "B", " ">>)>>,
                    <<"description", JStr(<<"D">>)>>,
                    <<"uri", JStr(<<"m", "e", "d", "i", "a", "/", "p", "o", "s", "t", "s", "/", "p", "2", "/", "b", ".", "p", "n", "g">>)>> >>)
        ItemBlankTitle ==
            JObj(<< <<"title", JStr(<<" ", " ">>)>>,
                    <<"text", JStr(<<"X">>)>>,
                    <<"file_path", JStr(<<"n", "o", "f", "i", "l", "e", ".", "g", "i", "f">>)>>,
                    <<"timestamp", JNum(5)>> >>)
        ItemNoCaption ==
            JObj(<< <<"uri", JStr(<<"a", ".", "j", "p", "g">>)>>, <<"creation_timestamp", JNum(5)>> >>)
        ItemThrows ==
            JObj(<< <<"title", JObj(<< <<"toString", JNum(1)>> >>)>>,
                    <<"uri", JStr(<<"m", "e", "d", "i", "a", "/", "p", "o", "s", "t", "s", "/", "p", "1", "/", "a", ".", "j", "p", "g">>)>> >>)
        ItemZeroTitle ==
            JObj(<< <<"title", JNum(0)>>,
                    <<"content", JStr(<<"C">>)>>,
                    <<"path", JStr(<<"b", ".", "p", "n", "g">>)>> >>)
        ItemConstructor ==
            JObj(<< <<"uri", JStr(<<"b", "a", "c", "k", "u", "p", "/", "c", "o", "n", "s", "t", "r", "u", "c", "t", "o", "r">>)>> >>)
    IN  << [path |-> <<"m", "e", "d", "i", "a", "/", "p", "o", "s", "t", "s", "/", "p", "1", "/", "a", ".", "j", "p", "g">>, json |-> JInvalid],
           [path |-> <<"m", "e", "d", "i", "a", "/", "p", "o", "s", "t", "s", "/", "p", "2", "/", "b", ".", "p", "n", "g">>, json |-> JInvalid],
           [path |-> <<"y", "o", "u", "r", "_", "i", "n", "s", "t", "a", "g", "r", "a", "m", "_", "a", "c", "t", "i", "v", "i", "t", "y", "/", "m", "e", "d", "i", "a", "/", "p", "o", "s", "t", "s", "_", "1", ".", "j", "s", "o", "n">>, json |-> JArr(<<ItemA, ItemB>>)],
           [path |-> <<"y", "o", "u", "r", "_", "i", "n", "s", "t", "a", "g", "r", "a", "m", "_", "a", "c", "t", "i", "v", "i", "t", "y", "/", "m", "e", "d", "i", "a", "/", "p", "o", "s", "t", "s", ".", "j", "s", "o", "n">>,
            json |-> JObj(<< <<"media", JArr(<<ItemBlankTitle>>)>> >>)],
           [path |-> <<"y", "o", "u", "r", "_", "i", "n", "s", "t", "a", "g", "r", "a", "m", "_", "a", "c", "t", "i", "v", "i", "t", "y", "/", "m", "e", "d", "i", "a", ".", "j", "s", "o", "n">>,
            json |-> JArr(<<ItemNoCaption, JNum(3), ItemThrows, ItemA>>)],
           [path |-> <<"y", "o", "u", "r", "_", "i", "n", "s", "t", "a", "g", "r", "a", "m", "_", "a", "c", "t", "i", "v", "i", "t", "y", "/", "s", "a", "v", "e", "d", "/", "s", "a", "v", "e", "d", "_", "p", "o", "s", "t", "s", ".", "j", "s", "o", "n">>, json |-> ItemZeroTitle],
           [path |-> <<"y", "o", "u", "r", "_", "i", "n", "s", "t", "a", "g", "r", "a", "m", "_", "a", "c", "t", "i", "v", "i", "t", "y", "/", "x", ".", "j", "s", "o", "n">>, json |-> JInvalid],
           [path |-> <<"y", "o", "u", "r", "_", "i", "n", "s", "t", "a", "g", "r", "a", "m", "_", "a", "c", "t", "i", "v", "i", "t", "y", "/", "y", ".", "j", "s", "o", "n">>, json |-> JNull],
           [path |-> <<"y", "o", "u", "r", "_", "i", "n", "s", "t", "a", "g", "r", "a", "m", "_", "a", "c", "t", "i", "v", "i", "t", "y", "/", "z", ".", "j", "s", "o", "n">>, json |-> JArr(<<ItemConstructor>>)],
           [path |-> <<"y", "o", "u", "r", "_", "i", "n", "s", "t", "a", "g", "r", "a", "m", "_", "a", "c", "t", "i", "v", "i", "t", "y", "_", "o", "l", "d", "/", "p", "o", "s", "t", "s", ".", "j", "s", "o", "n">>, json |-> JArr(<<ItemB>>)],
           [path |-> <<"o", "t", "h", "e", "r", "/", "p", "o", "s", "t", "s", "_", "1", ".", "j", "s", "o", "n">>, json |-> JArr(<<ItemA>>)] >>

\* the table after the extraction of the chosen files in the chosen order;
\* every file has a buffer of its own
tableOfFiles(choice) ==
    [i \in 1..Len(choice) |->
        [path |-> FilePool[choice[i]].path,
         content |-> [buf |-> i, json |-> FilePool[choice[i]].json]]]

PipelineInit ==
    /\ ParserInit
    /\ fnPc = "extracted"
    /\ fnArg \in Arrangements(Len(FilePool), MaxEntries)
    /\ fnRet = <<>>

\* findDirectories() and findMetadataFiles(activityDir)
locateFiles ==
    /\ fnPc = "extracted"
    /\ LET table == tableOfFiles(fnArg)
           dirs == findDirectories(table)
       IN  IF dirs.threw
           THEN /\ fnPc' = "rejected"
                /\ fnRet' = [dirs |-> dirs]
           ELSE /\ fnPc' = "located"
                /\ fnRet' = [dirs |-> dirs,
                             metadataFiles |-> findMetadataFiles(table, dirs.activityDir)]
    /\ UNCHANGED <<fnArg, parserVars>>

\* parseMetadata(metadataFiles)
readMetadata ==
    /\ fnPc = "located"
    /\ fnPc' = "parsed"
    /\ fnRet' = [dirs |-> fnRet.dirs,
                 metadataFiles |-> fnRet.metadataFiles,
                 postsData |-> parseMetadata(fnRet.metadataFiles)]
    /\ UNCHANGED <<fnArg, parserVars>>

\* findImageFiles(mediaDir), matchPostsWithImages, Promise.all and the return
buildResult ==
    /\ fnPc = "parsed"
    /\ fnPc' = "returned"
    /\ LET table == tableOfFiles(fnArg)
           imageFiles == findImageFiles(table, fnRet.dirs.mediaDir)
       IN  fnRet' = [dirs |-> fnRet.dirs,
                     metadataFiles |-> fnRet.metadataFiles,
                     postsData |-> fnRet.postsData,
                     result |-> createPosts(table, imageFiles, fnRet.metadataFiles,
                                            matchPostsWithImages(fnRet.postsData, imageFiles, now),
                                            urlCount)]
    /\ UNCHANGED <<fnArg, parserVars>>

PipelineNext == locateFiles \/ readMetadata \/ buildResult

SpecPipeline == PipelineInit /\ [][PipelineNext]_vars

\* the metadata files on which parseMetadata does not throw before the items
wellFormed(metadataFiles) ==
    filterSeq(metadataFiles,
              [i \in 1..Len(metadataFiles) |-> ~discoveryThrows(metadataFiles[i])])

\* C11: metadata files that are not JSON, or whose value is null, do not make
\* parseMetadata throw: it returns the PostInfos of the other files, in their
\* order, as if the malformed files were not there, and the call goes on to
\* return a result.
C11_MalformedMetadataNonFatal ==
    /\ fnPc \in {"parsed", "returned"} =>
           fnRet.postsData = parseMetadata(wellFormed(fnRet.metadataFiles))
    /\ fnPc = "returned" => ~fnRet.result.threw

\* C11 witness: a file that is not JSON comes before a file with posts, and
\* the result carries the posts of the latter
C11_Witness ==
    /\ fnPc = "returned"
    /\ Len(fnRet.metadataFiles) >= 2
    /\ discoveryThrows(fnRet.metadataFiles[1])
    /\ Len(fnRet.postsData) > 0
    /\ Len(fnRet.result.posts) > 0


\* C13 (the claim as stated): when both roots resolve and the metadata parses
\* but no file under the media root has an image extension, the run returns a
\* result with no posts, totalPosts 0 and totalImages 0.
C13_NoImagesIsNotAnError ==
    (/\ fnPc = "returned"
     /\ fnRet.result.imageFiles = <<>>
     /\ Len(fnRet.metadataFiles) > 0
     /\ wellFormed(fnRet.metadataFiles) = fnRet.metadataFiles)
    => /\ ~fnRet.result.threw
       /\ fnRet.result.posts = <<>>
       /\ fnRet.result.totalPosts = 0
       /\ fnRet.result.totalImages = 0


\* C14 (the claim as stated): the metadataFiles field of a result holds one
\* string for each candidate metadata file, in the order in which the files
\* were processed: the name of the file, be it its path or the last segment
\* of its path.
C14_MetadataFileNames ==
    fnPc = "returned" =>
        /\ Len(fnRet.result.names) = Len(fnRet.metadataFiles)
        /\ \A i \in 1..Len(fnRet.metadataFiles) :
               LET path == pathOfBuffer(tableOfFiles(fnArg), fnRet.metadataFiles[i])
               IN  /\ fnRet.result.names[i].t = "string"
                   /\ fnRet.result.names[i].s \in {path, popOrEmpty(split(path, "/"))}


\* the caption fields of the item, by position in the list title, caption,
\* description, text, content, that hold a value which is not blank: a truthy
\* value (not undefined, null, false, 0 or '') whose string form has a
\* character other than white space
captioned(item) ==
    {k \in 1..5 : usable(get(item, <<"title", "caption", "description", "text", "content">>[k]))}

\* C15: the caption of every PostInfo is the trimmed string form of the first
\* value that is not blank among title, caption, description, text, content,
\* and "Instagram post" when there is none; the caption of every post of a
\* result is a string with at least one character.
C15_CaptionRule ==
    /\ fnPc \in {"parsed", "returned"} =>
           \A i \in 1..Len(fnRet.postsData) :
               LET item == fnRet.postsData[i].originalData
               IN  fnRet.postsData[i].caption =
                       IF captioned(item) = {} THEN <<"I", "n", "s", "t", "a", "g", "r", "a", "m", " ", "p", "o", "s", "t">>
                       ELSE trim(toString(get(item, <<"title", "caption", "description", "text", "content">>[Least(captioned(item))])))
    /\ fnPc = "returned" =>
           \A i \in 1..Len(fnRet.result.posts) : Len(fnRet.result.posts[i].caption) > 0

\* C15 witness: one PostInfo took its caption from the text field because the
\* title is blank, another has no caption field and got the default
C15_Witness ==
    /\ fnPc = "returned"
    /\ \E i, j \in 1..Len(fnRet.postsData) :
           /\ get(fnRet.postsData[i].originalData, "title") = JStr(<<" ", " ">>)
           /\ fnRet.postsData[i].caption = <<"X">>
           /\ captioned(fnRet.postsData[j].originalData) = {}
           /\ fnRet.postsData[j].caption = <<"I", "n", "s", "t", "a", "g", "r", "a", "m", " ", "p", "o", "s", "t">>
    /\ Len(fnRet.result.posts) > 0


\* the image files and the matched pairs of the run, computed from its table
locatedImages == findImageFiles(tableOfFiles(fnArg), fnRet.dirs.mediaDir)

matchedPairs == matchPostsWithImages(fnRet.postsData, locatedImages, now)

\* C17: in a result, post i (from 0) has the id "post_i", is selected, and
\* carries the caption, the timestamp and the original data of matched pair i,
\* with an object URL when the table has bytes under the pair's image path and
\* '' otherwise; totalPosts is the number of posts and totalImages the number
\* of located images.
C17_ResultAssembly ==
    fnPc = "returned" =>
        /\ Len(fnRet.result.posts) = Len(matchedPairs)
        /\ \A i \in 1..Len(matchedPairs) :
               /\ fnRet.result.posts[i].id = <<"p", "o", "s", "t", "_">> \o numToString(i - 1)
               /\ fnRet.result.posts[i].selected = TRUE
               /\ fnRet.result.posts[i].caption = matchedPairs[i].caption
               /\ fnRet.result.posts[i].timestamp = matchedPairs[i].timestamp
               /\ fnRet.result.posts[i].originalData = matchedPairs[i].originalData
               /\ fnRet.result.posts[i].image # 0
                      <=> hasKey(tableOfFiles(fnArg), matchedPairs[i].imagePath)
        /\ fnRet.result.totalPosts = Len(fnRet.result.posts)
        /\ fnRet.result.totalImages = Len(locatedImages)

\* C17 witness: a result with two posts made from metadata, in the order of
\* their items, each with an object URL
C17_Witness ==
    /\ fnPc = "returned"
    /\ Len(fnRet.result.posts) = 2
    /\ fnRet.result.posts[1].id = <<"p", "o", "s", "t", "_", "0">> /\ fnRet.result.posts[1].caption = <<"A">>
    /\ fnRet.result.posts[2].id = <<"p", "o", "s", "t", "_", "1">> /\ fnRet.result.posts[2].caption = <<"B">>
    /\ fnRet.result.posts[1].image # 0 /\ fnRet.result.posts[2].image # 0
    /\ fnRet.result.totalImages = 2


\* the candidate files: the entries whose key starts with the activity root
\* and ends with .json, in table order
candidates ==
    LET table == tableOfFiles(fnArg)
    IN  filterSeq(table,
                  [i \in 1..Len(table) |->
                      /\ startsWith(table[i].path, fnRet.dirs.activityDir)
                      /\ endsWith(table[i].path, <<".", "j", "s", "o", "n">>)])

\* the place in the priority list of the file's name, the last segment of its
\* path: 1 posts_1.json, 2 posts.json, 3 media.json, 4 saved_posts.json, and
\* 5 for every other name
listed(path) ==
    LET name == lastSegment(path)
    IN  CASE name = <<"p", "o", "s", "t", "s", "_", "1", ".", "j", "s", "o", "n">> -> 1
          [] name = <<"p", "o", "s", "t", "s", ".", "j", "s", "o", "n">> -> 2
          [] name = <<"m", "e", "d", "i", "a", ".", "j", "s", "o", "n">> -> 3
          [] name = <<"s", "a", "v", "e", "d", "_", "p", "o", "s", "t", "s", ".", "j", "s", "o", "n">> -> 4
          [] OTHER -> 5

\* C20: findMetadataFiles returns the candidate files, each once, ordered by
\* the place of their names in the priority list, unlisted names last and
\* files of equal place in table order; parseMetadata emits the PostInfos file
\* by file in that order, and the items of a file in their order.
C20_MetadataOrdering ==
    fnPc \in {"located", "parsed", "returned"} =>
        \E p \in [1..Len(candidates) -> 1..Len(candidates)] :
            /\ \A i, j \in 1..Len(candidates) : i # j => p[i] # p[j]
            /\ fnRet.metadataFiles = [i \in 1..Len(candidates) |-> candidates[p[i]].content]
            /\ \A i, j \in 1..Len(candidates) :
                   i < j => \/ listed(candidates[p[i]].path) < listed(candidates[p[j]].path)
                            \/ /\ listed(candidates[p[i]].path) = listed(candidates[p[j]].path)
                               /\ p[i] < p[j]
            /\ fnPc \in {"parsed", "returned"} =>
                   fnRet.postsData =
                       Cat([i \in 1..Len(candidates) |-> postsOfFile(candidates[p[i]].content)])

\* C20 witness: three candidates stored in the order unlisted, saved_posts.json,
\* posts_1.json came out in the order posts_1.json, saved_posts.json, unlisted,
\* and their PostInfos in that order
C20_Witness ==
    /\ fnPc = "returned"
    /\ Len(candidates) = 3
    /\ listed(candidates[1].path) = 5
    /\ listed(candidates[2].path) = 4
    /\ listed(candidates[3].path) = 1
    /\ fnRet.metadataFiles = <<candidates[3].content, candidates[2].content, candidates[1].content>>
    /\ Len(postsOfFile(candidates[1].content)) > 0
    /\ Len(fnRet.postsData) > 2


(***************************************************************************)
(* parseMetadata on one metadata file, for every parsed value of a family   *)
(* of arrays, keyed structures and scalars                                  *)
(***************************************************************************)

\* length of the longest top-level array
MaxItems == 2

\* the items found in the files: each has a media URI of its own
ParseItems ==
    <<JObj(<< <<"uri", JStr(<<"a", ".", "j", "p", "g">>)>>, <<"creation_timestamp", JNum(5)>> >>),
      JObj(<< <<"uri", JStr(<<"b", ".", "j", "p", "g">>)>>, <<"timestamp", JStr(<<"1", "9", "7", "0", "-", "0", "1", "-", "0", "2">>)>>, <<"time", JNum(9)>> >>),
      JObj(<< <<"uri", JStr(<<"c", ".", "j", "p", "g">>)>>, <<"date", JStr(<<"s", "o", "o", "n">>)>> >>),
      JObj(<< <<"uri", JStr(<<"d", ".", "j", "p", "g">>)>>, <<"creation_timestamp", JNum(0)>>, <<"time", JNum(7)>> >>),
      JObj(<< <<"uri", JStr(<<"e", ".", "j", "p", "g">>)>> >>),
      JObj(<< <<"uri", JStr(<<"f", ".", "j", "p", "g">>)>>, <<"created_time", JBool(TRUE)>>, <<"time", JNum(9)>> >>),
      JObj(<< <<"time", JStr(<<"1", "9", "7", "0">>)>>, <<"uri", JStr(<<"g", ".", "j", "p", "g">>)>> >>)>>

\* what a keyed structure holds under the k-th of the keys media, posts,
\* data, items: nothing, an empty array, an array of two items, a string
keyed(k, c) ==
    IF c = 1 THEN << <<itemsKeys[k], JArr(<<>>)>> >>
    ELSE IF c = 2 THEN << <<itemsKeys[k], JArr(<<ParseItems[k], ParseItems[k + 1]>>)>> >>
    ELSE IF c = 3 THEN << <<itemsKeys[k], JStr(<<"n", "o", "n", "e">>)>> >>
    ELSE <<>>

\* JSON.parse(text): an array of items, a keyed structure with the fields of
\* an item of its own (top) or without, null, a number, or a syntax error
ParseChoices ==
    {[kind |-> "array", sel |-> sel, keys |-> <<>>, top |-> 0] :
        sel \in UNION {[1..n -> 1..Len(ParseItems)] : n \in 0..MaxItems}}
    \cup
    {[kind |-> "object", sel |-> <<>>, keys |-> ks, top |-> t] :
        ks \in [1..Len(itemsKeys) -> 0..3], t \in 0..Len(ParseItems)}
    \cup
    {[kind |-> k, sel |-> <<>>, keys |-> <<>>, top |-> 0] : k \in {"null", "number", "invalid"}}

parsed(ch) ==
    IF ch.kind = "array" THEN JArr([i \in 1..Len(ch.sel) |-> ParseItems[ch.sel[i]]])
    ELSE IF ch.kind = "object"
         THEN JObj(keyed(4, ch.keys[4]) \o keyed(3, ch.keys[3])
                   \o (IF ch.top = 0 THEN <<>> ELSE ParseItems[ch.top].o)
                   \o keyed(2, ch.keys[2]) \o keyed(1, ch.keys[1]))
    ELSE IF ch.kind = "null" THEN JNull
    ELSE IF ch.kind = "number" THEN JNum(3)
    ELSE JInvalid

ParseInit ==
    /\ ParserInit
    /\ fnPc = "ready"
    /\ fnArg \in ParseChoices
    /\ fnRet = <<>>

\* parseMetadata([file]) with the items it walked through
callParseMetadata ==
    /\ fnPc = "ready"
    /\ LET content == [buf |-> 1, json |-> parsed(fnArg)]
       IN  fnRet' = [threw |-> discoveryThrows(content),
                     items |-> IF discoveryThrows(content) THEN <<>> ELSE itemsOf(content.json),
                     postsData |-> parseMetadata(<<content>>)]
    /\ fnPc' = "done"
    /\ UNCHANGED <<fnArg, parserVars>>

ParseNext == callParseMetadata

SpecParse == ParseInit /\ [][ParseNext]_vars

\* the keys among media, posts, data, items under which v holds an array
arrayKeys(v) == {k \in 1..Len(itemsKeys) : get(v, itemsKeys[k]).t = "array"}

\* C21: the items of an array are its elements; the items of a keyed
\* structure are the elements of the array under the first of the keys media,
\* posts, data, items that holds an array, and the structure itself as the
\* single item when no key holds an array or that array is empty; the
\* PostInfos of the file are those of these items.
C21_ItemNormalization ==
    fnPc = "done" =>
        LET v == parsed(fnArg)
            first == CHOOSE k \in arrayKeys(v) : \A j \in arrayKeys(v) : k <= j
        IN  /\ v.t = "array" => fnRet.items = v.a
            /\ v.t = "object" =>
                   fnRet.items = IF arrayKeys(v) = {} THEN <<v>>
                                 ELSE IF get(v, itemsKeys[first]).a = <<>> THEN <<v>>
                                 ELSE get(v, itemsKeys[first]).a
            /\ v.t \in {"array", "object"} =>
                   /\ ~fnRet.threw
                   /\ Len(fnRet.postsData) <= Len(fnRet.items)
                   /\ \A i \in 1..Len(fnRet.postsData) :
                          \E j \in 1..Len(fnRet.items) : fnRet.postsData[i].originalData = fnRet.items[j]

\* C21 witness: media holds an empty array and posts holds two items: the
\* search stops at media, and the structure itself, which has a URI, is the
\* single item
C21_Witness ==
    /\ fnPc = "done"
    /\ fnArg.kind = "object"
    /\ fnArg.keys = <<1, 2, 0, 3>>
    /\ fnArg.top = 5
    /\ fnRet.items = <<parsed(fnArg)>>
    /\ Len(fnRet.postsData) = 1
    /\ fnRet.postsData[1].mediaUri = <<"e", ".", "j", "p", "g">>

\* the timestamp fields the item has, as positions in the list of keys
presentKeys(item) == {k \in 1..Len(timestampKeys) : hasOwn(item, timestampKeys[k])}

\* C22: the timestamp of a PostInfo comes from the first of the fields
\* creation_timestamp, timestamp, created_time, date, time the item has: a
\* number is taken as it is, a date string gives its epoch milliseconds, and
\* a string that is no date leaves the timestamp unset; no PostInfo has a
\* timestamp that is not a number.
C22_TimestampExtraction ==
    fnPc = "done" =>
        \A i \in 1..Len(fnRet.postsData) :
            LET p == fnRet.postsData[i]
                item == p.originalData
                first == CHOOSE k \in presentKeys(item) : \A j \in presentKeys(item) : k <= j
                value == get(item, timestampKeys[first])
            IN  /\ p.timestamp.k # "NaN"
                /\ presentKeys(item) = {} => p.timestamp = TsUndefined
                /\ presentKeys(item) # {} /\ value.t = "number" => p.timestamp = TsNumber(value.n)
                /\ presentKeys(item) # {} /\ value.t = "string" =>
                       p.timestamp = IF dateGetTime(value.s) = TsNaN THEN TsUndefined
                                     ELSE dateGetTime(value.s)


(***************************************************************************)
(* Claims on the URI lookup and the fallbacks, under SpecMatch              *)
(***************************************************************************)

\* the filename of the i-th image contains a non-empty segment of the URI
containsSegment(uri, imageFiles, i) ==
    \E k \in 1..Len(segmentsOf(uri)) :
        /\ segmentsOf(uri)[k] # <<>>
        /\ includes(filenameOf(imageFiles[i]), segmentsOf(uri)[k])

\* the image the filename map holds for the filename of the i-th image: the
\* last image of that filename
heldFor(imageFiles, i) ==
    imageFiles[CHOOSE j \in 1..Len(imageFiles) :
                   /\ filenameOf(imageFiles[j]) = filenameOf(imageFiles[i])
                   /\ \A l \in (j + 1)..Len(imageFiles) :
                          filenameOf(imageFiles[l]) # filenameOf(imageFiles[i])]

\* the pairs made from the item of a PostInfo
pairsOf(result, post) == {k \in 1..Len(result) : result[k].originalData = post.originalData}

\* C23: a PostInfo whose last URI segment is the filename of no image is
\* paired with the image held for the first filename, in the order of the
\* map, that contains a non-empty segment of the URI; when no filename
\* contains a segment the lookup finds no image, and a PostInfo without a
\* timestamp is not paired.
C23_PartialMatch ==
    fnPc = "done" =>
        LET posts == postsIn(fnArg)
            images == imagesIn(fnArg)
            hits(uri) == {i \in 1..Len(images) : containsSegment(uri, images, i)}
            first(uri) == CHOOSE i \in hits(uri) : \A j \in hits(uri) : i <= j
        IN  \A p \in 1..Len(posts) :
                lastSegment(posts[p].mediaUri) \notin filenamesOf(images) =>
                    IF hits(posts[p].mediaUri) # {}
                    THEN /\ pairsOf(fnRet, posts[p]) # {}
                         /\ \A k \in pairsOf(fnRet, posts[p]) :
                                fnRet[k].imagePath = heldFor(images, first(posts[p].mediaUri))
                    ELSE ~tsTruthy(posts[p].timestamp) => pairsOf(fnRet, posts[p]) = {}


\* the result is made of pairs of PostInfos, in the order of the PostInfos
inPostOrder(result, posts) ==
    /\ Len(result) <= Len(posts)
    /\ \E f \in [1..Len(result) -> 1..Len(posts)] :
           /\ \A k \in 1..Len(result) :
                  /\ result[k].originalData = posts[f[k]].originalData
                  /\ result[k].caption = posts[f[k]].caption
                  /\ result[k].timestamp = posts[f[k]].timestamp
           /\ \A k \in 1..(Len(result) - 1) : f[k] < f[k + 1]

\* every post of the result is a synthetic one
allSynthetic(result) == \A k \in 1..Len(result) : result[k].originalData = JObj(<<>>)

\* C24: a PostInfo whose URI matches no image filename, exactly or by a
\* segment, is paired with the first image when it has a timestamp and there
\* is an image, and is not paired otherwise; the pairs come in the order of
\* their PostInfos.
C24_TimestampFallback ==
    fnPc = "done" =>
        LET posts == postsIn(fnArg)
            images == imagesIn(fnArg)
        IN  /\ \A p \in 1..Len(posts) :
                   matchesNoFilename(posts[p].mediaUri, images) =>
                       IF posts[p].timestamp.k = "number" /\ Len(images) > 0
                       THEN /\ pairsOf(fnRet, posts[p]) # {}
                            /\ \A k \in pairsOf(fnRet, posts[p]) : fnRet[k].imagePath = images[1]
                       ELSE pairsOf(fnRet, posts[p]) = {}
            /\ allSynthetic(fnRet) \/ inPostOrder(fnRet, posts)


\* C25: the result is made of synthetic posts exactly when the loop over the
\* PostInfos paired none of them and there is an image; otherwise it is the
\* pairs of the loop alone, so synthetic posts and posts from metadata never
\* occur together and an image no PostInfo was paired with yields no post.
C25_GlobalFallbackActivation ==
    fnPc = "done" =>
        LET posts == postsIn(fnArg)
            images == imagesIn(fnArg)
            paired == matchLoop(posts, buildImageMap(<<>>, images), images)
        IN  /\ (paired = <<>> /\ Len(images) > 0)
                   => SyntheticResult(fnRet, images, Min(Len(images), FallbackCap))
            /\ ~(paired = <<>> /\ Len(images) > 0)
                   => /\ fnRet = paired
                      /\ inPostOrder(fnRet, posts)
                      /\ \A k \in 1..Len(fnRet) : fnRet[k].originalData # JObj(<<>>)
            /\ allSynthetic(fnRet) \/ \A k \in 1..Len(fnRet) : fnRet[k].originalData # JObj(<<>>)

\* C25 witness: three images, one PostInfo paired by its URI: one post, and
\* nothing for the other two images
C25_Witness ==
    /\ fnPc = "done"
    /\ fnArg.items = <<1>>
    /\ fnArg.pick = <<4, 2, 1>>
    /\ Len(fnRet) = 1
    /\ fnRet[1].imagePath = ImagePool[2]
    /\ fnRet[1].originalData = MatchItems[1]


(***************************************************************************)
(* findImageFiles on every table of up to MaxKeys keys of a pool, in every  *)
(* order, with the media root findDirectories takes from the table          *)
(***************************************************************************)

\* number of keys in the table
MaxKeys == 3

LocatePool ==
    <<<<"m", "e", "d", "i", "a", "/", "p", "o", "s", "t", "s", "/", "a", ".", "j", "p", "g">>,
      <<"m", "e", "d", "i", "a", "/", "p", "o", "s", "t", "s", "/", "B", ".", "J", "P", "G">>,
      <<"m", "e", "d", "i", "a", "/", "p", "o", "s", "t", "s", "/", "c", ".", "g", "i", "f">>,
      <<"m", "e", "d", "i", "a", "/", "d", ".", "w", "e", "b", "p">>,
      <<"o", "l", "d", "/", "m", "e", "d", "i", "a", "/", "p", "o", "s", "t", "s", "/", "e", ".", "p", "n", "g">>,
      <<"m", "e", "d", "i", "a", "/", "p", "o", "s", "t", "s", "/", "f">>,
      <<"m", "e", "d", "i", "a", "/", "p", "o", "s", "t", "s", "/">> \o <<"U+0130">> \o <<".", "j", "p", "g">>,
      <<"b", "a", "c", "k", "u", "p", "/", "g", ".", "b", "m", "p">>,
      <<"m", "e", "d", "i", "a", "/", "p", "o", "s", "t", "s", "/", "h", ".", "j", "p", "e", "g", ".", "t", "x", "t">>,
      <<"m", "e", "d", "i", "a", "/", "p", "o", "s", "t", "s", ".", "v", "2", "/", "b", "m", "p">>>>

LocateInit ==
    /\ ParserInit
    /\ fnPc = "ready"
    /\ fnArg \in Arrangements(Len(LocatePool), MaxKeys)
    /\ fnRet = <<>>

\* findImageFiles(mediaDir) on the table of the chosen keys; located is
\* false when the table has no media root and parseInstagramData throws
\* before it gets there
callFindImageFiles ==
    /\ fnPc = "ready"
    /\ LET table == [i \in 1..Len(fnArg) |->
                        [path |-> LocatePool[fnArg[i]], content |-> [buf |-> i, json |-> JInvalid]]]
           mediaDir == findMediaDir(keysOf(table))
       IN  fnRet' = [located |-> mediaDir # <<>>,
                     mediaDir |-> mediaDir,
                     imageFiles |-> IF mediaDir = <<>> THEN <<>> ELSE findImageFiles(table, mediaDir)]
    /\ fnPc' = "done"
    /\ UNCHANGED <<fnArg, parserVars>>

LocateNext == callFindImageFiles

SpecLocate == LocateInit /\ [][LocateNext]_vars

\* the lower-cased text after the last '.' of a path; <<>> without a '.'
extensionOf(path) ==
    IF lastIndexOf(path, <<".">>) = -1 THEN <<>>
    ELSE toLowerCase(SubSeq(path, lastIndexOf(path, <<".">>) + 2, Len(path)))

\* C26: the located images are exactly the keys of the table that start with
\* the media root and whose lower-cased extension is jpg, jpeg, png, bmp or
\* webp, each once, in the order of the keys.
C26_ImageLocation ==
    (fnPc = "done" /\ fnRet.located) =>
        LET keys == [i \in 1..Len(fnArg) |-> LocatePool[fnArg[i]]]
            isImage(path) ==
                /\ startsWith(path, fnRet.mediaDir)
                /\ extensionOf(path) \in {<<"j", "p", "g">>, <<"j", "p", "e", "g">>, <<"p", "n", "g">>, <<"b", "m", "p">>, <<"w", "e", "b", "p">>}
        IN  fnRet.imageFiles = filterSeq(keys, [i \in 1..Len(keys) |-> isImage(keys[i])])


Max(a, b) == IF a >= b THEN a ELSE b

\* C27: the image path of every post of a result is one of the located
\* images, and a result has at most max(number of PostInfos, min(number of
\* images, 20)) posts.
C27_ImagePathsAreLocated ==
    fnPc = "done" =>
        LET posts == postsIn(fnArg)
            images == imagesIn(fnArg)
        IN  /\ \A k \in 1..Len(fnRet) : \E i \in 1..Len(images) : fnRet[k].imagePath = images[i]
            /\ Len(fnRet) <= Max(Len(posts), Min(Len(images), FallbackCap))


\* a later image has the filename of the i-th image
shadowed(imageFiles, i) ==
    \E l \in (i + 1)..Len(imageFiles) : filenameOf(imageFiles[l]) = filenameOf(imageFiles[i])

\* C28: of the images that share a filename the map holds the last: every
\* PostInfo whose URI ends in that filename is paired with that image,
\* whatever directory the URI names, and an earlier image of that name backs
\* a post of metadata only as the first image, through the timestamp of a
\* PostInfo whose URI matched nothing.
C28_DuplicateFilenames ==
    fnPc = "done" =>
        LET posts == postsIn(fnArg)
            images == imagesIn(fnArg)
        IN  /\ \A p \in 1..Len(posts) : \A i \in 1..Len(images) :
                   (filenameOf(images[i]) = lastSegment(posts[p].mediaUri) /\ ~shadowed(images, i))
                       => /\ pairsOf(fnRet, posts[p]) # {}
                          /\ \A k \in pairsOf(fnRet, posts[p]) : fnRet[k].imagePath = images[i]
            /\ \A k \in 1..Len(fnRet) : \A i \in 1..Len(images) :
                   (/\ fnRet[k].originalData # JObj(<<>>)
                    /\ fnRet[k].imagePath = images[i]
                    /\ shadowed(images, i))
                       => /\ i = 1
                          /\ tsTruthy(fnRet[k].timestamp)
                          /\ matchesNoFilename(uriBehind(fnRet[k]), images)

\* C28 witness: p1/a.jpg and p2/a.jpg are located in this order, and the
\* PostInfo whose URI is media/posts/p1/a.jpg is paired with p2/a.jpg
C28_Witness ==
    /\ fnPc = "done"
    /\ fnArg.items = <<1>>
    /\ fnArg.pick = <<2, 3>>
    /\ Len(fnRet) = 1
    /\ fnRet[1].imagePath = ImagePool[3]
    /\ uriBehind(fnRet[1]) = ImagePool[2]


(***************************************************************************)
(* cleanup() during a run, under Spec                                       *)
(***************************************************************************)

\* C29: whenever cleanup() runs, a call that gets past its extraction works
\* on a table that holds every file entry of its archive.
C29_TeardownDuringRun ==
    \A c \in Calls :
        (pastExtraction(calls[c]) /\ ~unusable(Archives[calls[c].archive]))
            => fileNames(Archives[calls[c].archive]) \subseteq Range(calls[c].used)


(***************************************************************************)
(* The Inference component: its state (fnRet), the FileReader loads in      *)
(* flight (fnArg) and its handlers.  A handler bound to a control can run   *)
(* only while the control is rendered and enabled.  image is 0 for null and *)
(* f for the data URL of file f.  Two handlers are not among the actions:   *)
(* captureEnvironment and the button that removes the environment image are *)
(* rendered only in the camera view or with an environment image, that is   *)
(* with image set and cameraMode on, which no handler establishes.          *)
(***************************************************************************)

\* number of image files the user can pick
MaxFiles == 2

\* useState initial values, streamRef and the pending getUserMedia call
InferenceState ==
    [cameraMode |-> FALSE, isCameraActive |-> FALSE, image |-> 0, environmentImage |-> 0,
     captions |-> 0, isGenerating |-> FALSE, currentStep |-> "upload",
     stream |-> FALSE, requested |-> FALSE]

InferenceInit ==
    /\ ParserInit
    /\ fnPc = "mounted"
    /\ fnArg = {}
    /\ fnRet = InferenceState

\* the effect on cameraMode: startCamera() when it became true, stopCamera()
\* when it became false; was is the value before the handler ran
cameraEffect(state, was) ==
    IF state.cameraMode = was THEN state
    ELSE IF state.cameraMode
         THEN [state EXCEPT !.stream = FALSE, !.isCameraActive = FALSE, !.requested = TRUE]
         ELSE [state EXCEPT !.stream = FALSE, !.isCameraActive = FALSE]

\* the step 2 card shows the buttons Capture Environment and Skip
stepTwoButtons ==
    /\ fnRet.image # 0
    /\ ~fnRet.cameraMode
    /\ fnRet.environmentImage = 0
    /\ fnRet.currentStep = "environment"

\* the step 3 card is rendered
stepThreeCard == fnRet.image # 0 /\ fnRet.currentStep = "generate"

\* handleImageUpload: reader.readAsDataURL(file); the upload zone is rendered
\* while image is null
handleImageUpload(f) ==
    /\ fnPc = "mounted"
    /\ fnRet.image = 0
    /\ f \notin fnArg
    /\ fnArg' = fnArg \cup {f}
    /\ UNCHANGED <<fnPc, fnRet, parserVars>>

\* reader.onload of handleImageUpload
readerOnload(f) ==
    /\ fnPc = "mounted"
    /\ f \in fnArg
    /\ fnArg' = fnArg \ {f}
    /\ fnRet' = cameraEffect([fnRet EXCEPT !.image = f,
                                           !.cameraMode = FALSE,
                                           !.currentStep = "environment"],
                             fnRet.cameraMode)
    /\ UNCHANGED <<fnPc, parserVars>>

\* the X button on the subject image
removeImage ==
    /\ fnPc = "mounted"
    /\ fnRet.image # 0
    /\ fnRet' = [fnRet EXCEPT !.image = 0,
                              !.currentStep = "upload",
                              !.environmentImage = 0,
                              !.captions = 0]
    /\ UNCHANGED <<fnPc, fnArg, parserVars>>

\* toggleCameraMode, from the button Capture Environment
toggleCameraMode ==
    /\ fnPc = "mounted"
    /\ stepTwoButtons
    /\ fnRet' = cameraEffect([fnRet EXCEPT !.cameraMode = ~fnRet.cameraMode, !.image = 0],
                             fnRet.cameraMode)
    /\ UNCHANGED <<fnPc, fnArg, parserVars>>

skipEnvironment ==
    /\ fnPc = "mounted"
    /\ stepTwoButtons
    /\ fnRet' = [fnRet EXCEPT !.currentStep = "generate"]
    /\ UNCHANGED <<fnPc, fnArg, parserVars>>

\* startCamera after its await.  getUserMedia resolved (ok): streamRef.current
\* = newStream, and isCameraActive is set when the video element exists, which
\* it does only in the camera view.  getUserMedia rejected twice: the toast
\* and setCameraMode(false)
startCamera(ok) ==
    /\ fnPc = "mounted"
    /\ fnRet.requested
    /\ fnRet' = IF ok
                THEN [fnRet EXCEPT !.requested = FALSE,
                                   !.stream = TRUE,
                                   !.isCameraActive = (fnRet.image # 0 /\ fnRet.cameraMode)]
                ELSE cameraEffect([fnRet EXCEPT !.requested = FALSE, !.cameraMode = FALSE],
                                  fnRet.cameraMode)
    /\ UNCHANGED <<fnPc, fnArg, parserVars>>

\* generateCaptions up to its await
generateCaptions ==
    /\ fnPc = "mounted"
    /\ stepThreeCard
    /\ ~fnRet.isGenerating
    /\ fnRet' = [fnRet EXCEPT !.isGenerating = TRUE]
    /\ UNCHANGED <<fnPc, fnArg, parserVars>>

\* the timeout of generateCaptions: setCaptions, setIsGenerating(false)
captionsGenerated ==
    /\ fnPc = "mounted"
    /\ fnRet.isGenerating
    /\ fnRet' = [fnRet EXCEPT !.captions = 3, !.isGenerating = FALSE]
    /\ UNCHANGED <<fnPc, fnArg, parserVars>>

\* resetWorkflow, from the button Start Over
resetWorkflow ==
    /\ fnPc = "mounted"
    /\ stepThreeCard
    /\ fnRet' = cameraEffect([fnRet EXCEPT !.image = 0,
                                           !.environmentImage = 0,
                                           !.captions = 0,
                                           !.currentStep = "upload",
                                           !.cameraMode = FALSE],
                             fnRet.cameraMode)
    /\ UNCHANGED <<fnPc, fnArg, parserVars>>

InferenceNext ==
    \/ \E f \in 1..MaxFiles : handleImageUpload(f)
    \/ \E f \in 1..MaxFiles : readerOnload(f)
    \/ removeImage
    \/ toggleCameraMode
    \/ skipEnvironment
    \/ \E ok \in BOOLEAN : startCamera(ok)
    \/ generateCaptions
    \/ captionsGenerated
    \/ resetWorkflow

SpecInference == InferenceInit /\ [][InferenceNext]_vars

\* C30: whenever the step is environment or generate, the subject image is
\* set.
C30_SubjectImageKept ==
    fnRet.currentStep \in {"environment", "generate"} => fnRet.image # 0

=============================================================================
